---- MODULE Spec2Model ----
(***************************************************************************)
(* Model of the structures package (expand/flatten converters, resource   *)
(* IDs and the metadata reconciliation layer), of the default service      *)
(* account create, of the data source reads of namespace, pod and service  *)
(* account, and of the node selector converters of core/v1.                *)
(*                                                                         *)
(* Strings are modelled as sequences of lexical tokens: the string is the  *)
(* concatenation of its tokens.  The tokens are chosen so that every test  *)
(* the code makes on a string (equality with a literal, HasSuffix,         *)
(* Contains, splitting at "/") is decided by the token sequence.           *)
(***************************************************************************)
EXTENDS Integers, Sequences, FiniteSets, TLC

VARIABLES
    \* ---- metadata reconciliation (FlattenMetadata) ----
    key,                \* an annotation/label key being written, token by token
    meta,               \* metav1.ObjectMeta of the server object
    orig,               \* the server object as it was before FlattenMetadata ran
    configAnnotations,  \* d.Get("metadata.0.annotations")
    configLabels,       \* d.Get("metadata.0.labels")
    ignoreAnnotations,  \* provider "ignore_annotations" ([]interface{})
    ignoreLabels,       \* provider "ignore_labels" ([]interface{})
    flat,               \* result of FlattenMetadata: [done, m]
    \* ---- default service account create ----
    pc,                 \* position in resourceKubernetesDefaultServiceAccountCreate
    id,                 \* d.Id()
    calls,              \* API requests issued so far, with their outcome
    diags,              \* returned diagnostics
    attempts,           \* number of Gets that returned NotFound
    default_secret_name,\* d.Get("default_secret_name")
    ops,                \* the PatchOperations built so far
    plan,               \* the configuration and the changes d.HasChange reports
    \* ---- ExpandLimitRangeSpec ----
    lrS, lrIsNew, lrRes,
    \* ---- service account secrets ----
    saIn, saDef, saAtt, saOut, saStage,
    \* ---- node selector terms ----
    nsIn, nsAtt, nsOut, nsStage,
    \* ---- resource IDs (BuildId, IdParts) ----
    idNamespace,        \* ObjectMeta.Namespace, token by token
    idName,             \* ObjectMeta.Name, token by token
    idStr,              \* a resource ID
    idRes,              \* result of IdParts: [namespace, name, err]
    idStage,
    \* ---- data source reads (namespace, pod, service account) ----
    rKind,              \* which data source is being read
    rpc,                \* position in the read function
    rMeta,              \* metadata of the configuration (ExpandMetadata)
    rId,                \* d.Id() of the data source
    rWritten,           \* attributes written with d.Set
    rCalls,             \* API requests and SetId calls so far, in order
    rDiags,             \* returned diagnostics
    diagMsg,            \* diagnostics of findDefaultServiceAccount
    rReadDiags,         \* diagnostics of resourceKubernetesServiceAccountRead
    \* ---- the node selector converters of core/v1 ----
    v1Att,              \* result of flattenNodeSelectorTerms: [done, value]
    v1Out               \* result of expandNodeSelectorTerms: [done, value]

metaVars   == <<key, meta, orig, configAnnotations, configLabels,
                ignoreAnnotations, ignoreLabels, flat>>
createVars == <<pc, id, calls, diags, attempts, default_secret_name, ops, plan>>
limitVars  == <<lrS, lrIsNew, lrRes>>
secretVars == <<saIn, saDef, saAtt, saOut, saStage>>
nodeVars   == <<nsIn, nsAtt, nsOut, nsStage>>
idVars     == <<idNamespace, idName, idStr, idRes, idStage>>
readVars   == <<rKind, rpc, rMeta, rId, rWritten, rCalls, rDiags, diagMsg, rReadDiags>>
copyVars   == <<v1Att, v1Out>>
vars       == <<metaVars, createVars, limitVars, secretVars, nodeVars,
                idVars, readVars, copyVars>>

----------------------------------------------------------------------------
(* Bounds *)

MaxKeyLen  == 5   \* tokens in a key
MaxEntries == 2   \* annotations + labels on the server object
MaxConfig  == 1   \* annotations + labels in the configuration
MaxIgnore  == 2   \* ignore_annotations + ignore_labels expressions
MaxSecrets == 3   \* entries of a service account's secret list
MaxTerms   == 2   \* node selector terms
MaxReqs    == 2   \* node selector requirements, over all terms
MaxLimits  == 2   \* limit items of a limit range
MaxFields  == 2   \* resource maps set, over all limit items
MaxAttempts == 3  \* Gets answered NotFound before the create timeout expires
MaxIdLen   == 3   \* tokens in a namespace, a name or an imported ID

----------------------------------------------------------------------------
(* Generic helpers *)

\* a nil element of a []interface{} list of strings
NIL == <<"<nil>">>

EmptyMap == [k \in {} |-> "" ]

Range(s) == { s[i] : i \in 1..Len(s) }

\* strings.HasSuffix on token sequences
HasSuffix(s, suffix) ==
    /\ Len(suffix) <= Len(s)
    /\ SubSeq(s, Len(s) - Len(suffix) + 1, Len(s)) = suffix

\* strings.Contains on token sequences
Contains(s, substr) ==
    \E i \in 1..(Len(s) + 1) :
        /\ i + Len(substr) - 1 <= Len(s)
        /\ SubSeq(s, i, i + Len(substr) - 1) = substr

\* index of the first occurrence of token t in s, Len(s)+1 if there is none
IndexOf(s, t) ==
    IF t \in Range(s) THEN CHOOSE i \in 1..Len(s) : s[i] = t /\ \A j \in 1..(i-1) : s[j] # t
    ELSE Len(s) + 1

----------------------------------------------------------------------------
(* Keys *)

DaemonSetGeneration == "deprecated.daemonset.template.generation"
BadEscape           == "%zz"    \* a percent sign not followed by two hex digits

KeyTokens == { ".", "/", "app", "service.beta", "kubernetes.io",
               DaemonSetGeneration, BadEscape }

\* url.Parse("//" + key): the authority runs up to the first "/"; an invalid
\* percent escape in the host or in the path is a parse error.
UrlParse(rawKey) ==
    [ err  |-> BadEscape \in Range(rawKey),
      host |-> SubSeq(rawKey, 1, IndexOf(rawKey, "/") - 1) ]

\* (*URL).Hostname(): the keys carry no port and no brackets
Hostname(u) == u.host

IsInternalKey_DaemonSetFirst(annotationKey) ==
    LET u == UrlParse(annotationKey) IN
    IF u.err THEN FALSE
    ELSE IF Contains(annotationKey, <<DaemonSetGeneration>>) THEN TRUE
    ELSE IF Hostname(u) = <<"app", ".", "kubernetes.io">> THEN FALSE
    ELSE IF Hostname(u) = <<"service.beta", ".", "kubernetes.io">> THEN FALSE
    ELSE IF HasSuffix(Hostname(u), <<"kubernetes.io">>) THEN TRUE
    ELSE FALSE

IsInternalKey(annotationKey) ==
    LET u == UrlParse(annotationKey) IN
    IF u.err THEN FALSE
    \* allow user specified application specific keys
    ELSE IF Hostname(u) = <<"app", ".", "kubernetes.io">> THEN FALSE
    \* allow AWS load balancer configuration annotations
    ELSE IF Hostname(u) = <<"service.beta", ".", "kubernetes.io">> THEN FALSE
    \* internal *.kubernetes.io keys
    ELSE IF HasSuffix(Hostname(u), <<"kubernetes.io">>) THEN TRUE
    \* Specific to DaemonSet annotations
    ELSE IF Contains(annotationKey, <<DaemonSetGeneration>>) THEN TRUE
    ELSE FALSE

IsKeyInMap(k, d) == \E dk \in DOMAIN d : dk = k

----------------------------------------------------------------------------
(* Ignore expressions.  An expression is a sequence of pattern tokens: "^"   *)
(* and "$" anchor it, "(" is an unbalanced parenthesis, and every other      *)
(* token is a quoted literal that matches one key token.                    *)

Unquote(pt) == IF pt = "kubernetes\\.io" THEN "kubernetes.io" ELSE pt

\* regexp.MatchString(e, s): (false, err) when e does not compile, else whether
\* s contains any match of e
MatchString(e, s) ==
    IF "(" \in Range(e) THEN FALSE
    ELSE
        LET atStart == Len(e) > 0 /\ e[1] = "^"
            e1      == IF atStart THEN Tail(e) ELSE e
            atEnd   == Len(e1) > 0 /\ e1[Len(e1)] = "$"
            e2      == IF atEnd THEN SubSeq(e1, 1, Len(e1) - 1) ELSE e1
            lit     == [ i \in 1..Len(e2) |-> Unquote(e2[i]) ]
        IN \E i \in 1..(Len(s) + 1) :
              /\ atStart => i = 1
              /\ i + Len(lit) - 1 <= Len(s)
              /\ SubSeq(s, i, i + Len(lit) - 1) = lit
              /\ atEnd => i + Len(lit) - 1 = Len(s)

\* a nil element of the list becomes the empty string
ExpandStringSlice(s) == [ i \in 1..Len(s) |-> IF s[i] = NIL THEN <<>> ELSE s[i] ]

ignoreKey(k, expressions) ==
    \E i \in 1..Len(expressions) : MatchString(expressions[i], k)

removeInternalKeys(m, d) ==
    LET deleted == { k \in DOMAIN m : IsInternalKey(k) /\ ~IsKeyInMap(k, d) }
    IN [ k \in (DOMAIN m) \ deleted |-> m[k] ]

removeKeys_ChecksOwnMap(m, d, ignoreKubernetesMetadataKeys) ==
    LET deleted == { k \in DOMAIN m :
                        ignoreKey(k, ignoreKubernetesMetadataKeys) /\ ~IsKeyInMap(k, m) }
    IN [ k \in (DOMAIN m) \ deleted |-> m[k] ]

removeKeys(m, d, ignoreKubernetesMetadataKeys) ==
    LET deleted == { k \in DOMAIN m :
                        ignoreKey(k, ignoreKubernetesMetadataKeys) /\ ~IsKeyInMap(k, d) }
    IN [ k \in (DOMAIN m) \ deleted |-> m[k] ]

\* the map m that FlattenMetadata returns in a one-element list
FlattenMetadata_LabelsUnfiltered(objMeta, cfgAnn, cfgLab, ignAnn, ignLab) ==
    [ annotations |-> removeKeys(removeInternalKeys(objMeta.Annotations, cfgAnn),
                                 cfgAnn, ExpandStringSlice(ignAnn)),
      labels      |-> removeInternalKeys(objMeta.Labels, cfgLab),
      name        |-> objMeta.Name,
      generate_name |-> objMeta.GenerateName,
      namespace   |-> objMeta.Namespace ]

FlattenMetadata(objMeta, cfgAnn, cfgLab, ignAnn, ignLab) ==
    [ annotations |-> removeKeys(removeInternalKeys(objMeta.Annotations, cfgAnn),
                                 cfgAnn, ExpandStringSlice(ignAnn)),
      labels      |-> removeKeys(removeInternalKeys(objMeta.Labels, cfgLab),
                                 cfgLab, ExpandStringSlice(ignLab)),
      name        |-> objMeta.Name,
      \* generate_name and namespace are set only when not empty; an unset
      \* attribute reads back as ""
      generate_name |-> objMeta.GenerateName,
      namespace   |-> objMeta.Namespace ]

----------------------------------------------------------------------------
(* Metadata reconciliation: state and steps *)

ServerValue == "s"
ConfigValue == "c"

\* keys written in one step by the specification that fills several entries
SampleKeys == { <<"app">>,
                <<"app", ".", "kubernetes.io", "/", "app">>,
                <<"app", "kubernetes.io", "/", "app">>,
                <<DaemonSetGeneration>> }

SampleExpressions == { NIL, <<"^", "app", "$">>, <<"kubernetes\\.io">>, <<"(">> }

EmptyObjectMeta ==
    [ Annotations |-> EmptyMap, Labels |-> EmptyMap,
      Name |-> "default", Namespace |-> "", GenerateName |-> "" ]

NotFlattened ==
    [ done |-> FALSE,
      m |-> FlattenMetadata(EmptyObjectMeta, EmptyMap, EmptyMap, <<>>, <<>>) ]

Put(m, k, v) == [ x \in (DOMAIN m) \cup {k} |-> IF x = k THEN v ELSE m[x] ]

Size(m) == Cardinality(DOMAIN m)

InitMetaIdle ==
    /\ key = <<>>
    /\ meta = EmptyObjectMeta
    /\ orig = EmptyObjectMeta
    /\ configAnnotations = EmptyMap
    /\ configLabels = EmptyMap
    /\ ignoreAnnotations = <<>>
    /\ ignoreLabels = <<>>
    /\ flat = NotFlattened

\* the user writes one more token of a key
AppendKeyToken(t) ==
    /\ ~flat.done
    /\ Size(meta.Annotations) = 0
    /\ Len(key) < MaxKeyLen
    /\ key' = Append(key, t)
    /\ UNCHANGED <<meta, orig, configAnnotations, configLabels,
                   ignoreAnnotations, ignoreLabels, flat>>

\* the server object carries annotation k
PutAnnotation(k, v) ==
    /\ ~flat.done
    /\ k \notin DOMAIN meta.Annotations
    /\ Size(meta.Annotations) + Size(meta.Labels) < MaxEntries
    /\ meta' = [meta EXCEPT !.Annotations = Put(@, k, v)]
    /\ UNCHANGED <<key, orig, configAnnotations, configLabels,
                   ignoreAnnotations, ignoreLabels, flat>>

\* the server object carries label k
PutLabel(k, v) ==
    /\ ~flat.done
    /\ k \notin DOMAIN meta.Labels
    /\ Size(meta.Annotations) + Size(meta.Labels) < MaxEntries
    /\ meta' = [meta EXCEPT !.Labels = Put(@, k, v)]
    /\ UNCHANGED <<key, orig, configAnnotations, configLabels,
                   ignoreAnnotations, ignoreLabels, flat>>

\* the configuration sets annotation k
ConfigAnnotation(k, v) ==
    /\ ~flat.done
    /\ k \notin DOMAIN configAnnotations
    /\ Size(configAnnotations) + Size(configLabels) < MaxConfig
    /\ configAnnotations' = Put(configAnnotations, k, v)
    /\ UNCHANGED <<key, meta, orig, configLabels,
                   ignoreAnnotations, ignoreLabels, flat>>

\* the configuration sets label k
ConfigLabel(k, v) ==
    /\ ~flat.done
    /\ k \notin DOMAIN configLabels
    /\ Size(configAnnotations) + Size(configLabels) < MaxConfig
    /\ configLabels' = Put(configLabels, k, v)
    /\ UNCHANGED <<key, meta, orig, configAnnotations,
                   ignoreAnnotations, ignoreLabels, flat>>

\* the provider block lists one more ignore_annotations expression
IgnoreAnnotation(e) ==
    /\ ~flat.done
    /\ Len(ignoreAnnotations) + Len(ignoreLabels) < MaxIgnore
    /\ ignoreAnnotations' = Append(ignoreAnnotations, e)
    /\ UNCHANGED <<key, meta, orig, configAnnotations, configLabels,
                   ignoreLabels, flat>>

\* the provider block lists one more ignore_labels expression
IgnoreLabel(e) ==
    /\ ~flat.done
    /\ Len(ignoreAnnotations) + Len(ignoreLabels) < MaxIgnore
    /\ ignoreLabels' = Append(ignoreLabels, e)
    /\ UNCHANGED <<key, meta, orig, configAnnotations, configLabels,
                   ignoreAnnotations, flat>>

\* FlattenMetadata(meta, d, providerMetadata); removeInternalKeys and removeKeys
\* delete from the maps of meta itself
Flatten ==
    /\ ~flat.done
    /\ LET m == FlattenMetadata(meta, configAnnotations, configLabels,
                                ignoreAnnotations, ignoreLabels)
       IN /\ flat' = [ done |-> TRUE, m |-> m ]
          /\ meta' = [meta EXCEPT !.Annotations = m.annotations, !.Labels = m.labels]
    /\ orig' = meta
    /\ UNCHANGED <<key, configAnnotations, configLabels,
                   ignoreAnnotations, ignoreLabels>>

----------------------------------------------------------------------------
(* The configuration of a service account and its planned changes *)

NoChange == [ old |-> EmptyMap, new |-> EmptyMap ]

AnnotationChanges ==
    { NoChange,
      [ old |-> EmptyMap, new |-> ("a" :> "1") ],
      [ old |-> ("a" :> "1") @@ ("b" :> "1"), new |-> ("c" :> "1") ] }

LabelChanges ==
    { NoChange,
      [ old |-> ("a" :> "1"), new |-> ("a" :> "2") ] }

IdlePlan ==
    [ metadata |-> [ Name |-> <<"default">>, Namespace |-> <<"ns">> ],
      annotations |-> NoChange, labels |-> NoChange,
      image_pull_secret |-> [ changed |-> FALSE, list |-> <<>> ],
      secret |-> [ changed |-> FALSE, list |-> <<>> ],
      automount_service_account_token |-> FALSE ]

Plans ==
    [ metadata : { [ Name |-> <<"default">>, Namespace |-> <<"ns">> ] },
      annotations : AnnotationChanges,
      labels : LabelChanges,
      image_pull_secret : { [ changed |-> FALSE, list |-> <<>> ],
                            [ changed |-> TRUE, list |-> << [ name |-> "pull" ] >> ] },
      secret : { [ changed |-> FALSE, list |-> <<>> ],
                 [ changed |-> TRUE, list |-> << [ name |-> "s1" ] >> ],
                 [ changed |-> TRUE, list |-> << [ name |-> "token" ], [ name |-> "s2" ] >> ] },
      automount_service_account_token : BOOLEAN ]

----------------------------------------------------------------------------
(* Idle values of the other components *)

InitCreateIdle ==
    /\ pc = "idle"
    /\ id = <<>>
    /\ calls = <<>>
    /\ diags = <<>>
    /\ attempts = 0
    /\ default_secret_name = ""
    /\ ops = <<>>
    /\ plan = IdlePlan

InitLimitIdle ==
    /\ lrS = <<>>
    /\ lrIsNew = FALSE
    /\ lrRes = [ done |-> FALSE, err |-> [ kind |-> "none", index |-> 0 ], Limits |-> <<>> ]

InitSecretIdle ==
    /\ saIn = <<>>
    /\ saDef = ""
    /\ saAtt = <<>>
    /\ saOut = <<>>
    /\ saStage = "idle"

InitNodeIdle ==
    /\ nsIn = <<>>
    /\ nsAtt = <<>>
    /\ nsOut = <<>>
    /\ nsStage = "idle"

InitCopyIdle ==
    /\ v1Att = [ done |-> FALSE, value |-> <<>> ]
    /\ v1Out = [ done |-> FALSE, value |-> <<>> ]

InitIdIdle ==
    /\ idNamespace = <<>>
    /\ idName = <<>>
    /\ idStr = <<>>
    /\ idRes = [ namespace |-> <<>>, name |-> <<>>, err |-> FALSE ]
    /\ idStage = "idle"

InitReadIdle ==
    /\ rKind = "none"
    /\ rpc = "idle"
    /\ rMeta = [ Name |-> <<>>, Namespace |-> <<>> ]
    /\ rId = <<>>
    /\ rWritten = {}
    /\ rCalls = <<>>
    /\ rDiags = <<>>
    /\ diagMsg = <<>>
    /\ rReadDiags = <<>>

----------------------------------------------------------------------------
(* SpecKey: one key of any shape on the server object.                      *)

InitKey ==
    /\ InitMetaIdle
    /\ InitCreateIdle /\ InitLimitIdle /\ InitSecretIdle /\ InitNodeIdle
    /\ InitIdIdle /\ InitReadIdle /\ InitCopyIdle

NextKey ==
    \/ /\ \E t \in KeyTokens : AppendKeyToken(t)
       /\ UNCHANGED <<createVars, limitVars, secretVars, nodeVars,
                    idVars, readVars, copyVars>>
    \/ /\ Len(key) > 0
       /\ PutAnnotation(key, ServerValue)
       /\ UNCHANGED <<createVars, limitVars, secretVars, nodeVars,
                    idVars, readVars, copyVars>>
    \/ /\ Size(meta.Annotations) > 0
       /\ ignoreAnnotations = <<>>
       /\ \E e \in SampleExpressions : IgnoreAnnotation(e)
       /\ UNCHANGED <<createVars, limitVars, secretVars, nodeVars,
                    idVars, readVars, copyVars>>
    \/ /\ Flatten
       /\ UNCHANGED <<createVars, limitVars, secretVars, nodeVars,
                    idVars, readVars, copyVars>>

SpecKey == InitKey /\ [][NextKey]_vars

(* SpecMeta: several sample keys, as annotations and labels, with          *)
(* configuration and ignore expressions.                                   *)

NextMeta ==
    \/ /\ \E k \in SampleKeys : PutAnnotation(k, ServerValue)
       /\ UNCHANGED <<createVars, limitVars, secretVars, nodeVars,
                    idVars, readVars, copyVars>>
    \/ /\ \E k \in SampleKeys : PutLabel(k, ServerValue)
       /\ UNCHANGED <<createVars, limitVars, secretVars, nodeVars,
                    idVars, readVars, copyVars>>
    \/ /\ \E k \in SampleKeys : ConfigAnnotation(k, ConfigValue)
       /\ UNCHANGED <<createVars, limitVars, secretVars, nodeVars,
                    idVars, readVars, copyVars>>
    \/ /\ \E k \in SampleKeys : ConfigLabel(k, ConfigValue)
       /\ UNCHANGED <<createVars, limitVars, secretVars, nodeVars,
                    idVars, readVars, copyVars>>
    \/ /\ \E e \in SampleExpressions : IgnoreAnnotation(e)
       /\ UNCHANGED <<createVars, limitVars, secretVars, nodeVars,
                    idVars, readVars, copyVars>>
    \/ /\ \E e \in SampleExpressions : IgnoreLabel(e)
       /\ UNCHANGED <<createVars, limitVars, secretVars, nodeVars,
                    idVars, readVars, copyVars>>
    \/ /\ Flatten
       /\ UNCHANGED <<createVars, limitVars, secretVars, nodeVars,
                    idVars, readVars, copyVars>>

SpecMeta == InitKey /\ [][NextMeta]_vars

----------------------------------------------------------------------------
(* Service account secrets.  An entry of the configuration is a map that     *)
(* may hold "name"; an api.ObjectReference is a record with a Name.          *)

SecretNames   == { "", "s1", "s2", "token" }
SecretEntries == { EmptyMap } \cup { [ name |-> n ] : n \in SecretNames }

RECURSIVE FlattenServiceAccountSecrets_NoSkip(_, _)
FlattenServiceAccountSecrets_NoSkip(in, defaultSecretName) ==
    IF in = <<>> THEN <<>>
    ELSE LET v == Head(in)
             m == IF v.Name # "" THEN [ name |-> v.Name ] ELSE EmptyMap
         IN <<m>> \o FlattenServiceAccountSecrets_NoSkip(Tail(in), defaultSecretName)

RECURSIVE FlattenServiceAccountSecrets(_, _)
FlattenServiceAccountSecrets(in, defaultSecretName) ==
    IF in = <<>> THEN <<>>
    ELSE LET v == Head(in)
             rest == FlattenServiceAccountSecrets(Tail(in), defaultSecretName)
             m == IF v.Name # "" THEN [ name |-> v.Name ] ELSE EmptyMap
         IN IF v.Name = defaultSecretName THEN rest ELSE <<m>> \o rest

RECURSIVE ExpandServiceAccountSecretsLoop(_)
ExpandServiceAccountSecretsLoop(in) ==
    IF in = <<>> THEN <<>>
    ELSE LET p == Head(in)
         IN (IF "name" \in DOMAIN p THEN << [ Name |-> p.name ] >> ELSE <<>>)
            \o ExpandServiceAccountSecretsLoop(Tail(in))

ExpandServiceAccountSecrets_DefaultFirst(in, defaultSecretName) ==
    (IF defaultSecretName # "" THEN << [ Name |-> defaultSecretName ] >> ELSE <<>>)
    \o ExpandServiceAccountSecretsLoop(in)

ExpandServiceAccountSecrets(in, defaultSecretName) ==
    ExpandServiceAccountSecretsLoop(in)
    \o (IF defaultSecretName # "" THEN << [ Name |-> defaultSecretName ] >> ELSE <<>>)

AddSecretEntry(e) ==
    /\ saStage = "config"
    /\ Len(saIn) < MaxSecrets
    /\ saIn' = Append(saIn, e)
    /\ UNCHANGED <<saDef, saAtt, saOut, saStage>>

ExpandSecrets ==
    /\ saStage = "config"
    /\ saAtt' = ExpandServiceAccountSecrets(saIn, saDef)
    /\ saStage' = "expanded"
    /\ UNCHANGED <<saIn, saDef, saOut>>

FlattenSecrets ==
    /\ saStage = "expanded"
    /\ saOut' = FlattenServiceAccountSecrets(saAtt, saDef)
    /\ saStage' = "flattened"
    /\ UNCHANGED <<saIn, saDef, saAtt>>

----------------------------------------------------------------------------
(* Node selector terms.  A value of the generic representation carries its   *)
(* Go type where the code asserts it: a list is a record [gotype, elems].    *)

SliceOfInterface == "[]interface {}"
SliceOfMap       == "[]map[string]interface {}"

NodeValues    == { <<"a">>, <<"b">> }
NodeValueLists == { <<>>, << <<"a">> >>, << <<"a">>, <<"b">> >>, << <<"b">>, <<"a">> >> }
NodeRequirements ==
    [ Key : { "k" }, Operator : { "In", "Exists" }, Values : NodeValueLists ]

\* schema.HashString: the leading digits of crc32.ChecksumIEEE of the value
\* (3904355907 for "a", 1908338681 for "b")
HashString(v) == IF v = <<"a">> THEN 39043 ELSE 19083

\* schema.NewSet(f, items): the items, one per hash code
NewStringSet(in) == Range(in)

\* (*schema.Set).List(): the items in the order of their hash codes
RECURSIVE SetList(_)
SetList(set) ==
    IF set = {} THEN <<>>
    ELSE LET first == CHOOSE v \in set : \A w \in set : HashString(v) <= HashString(w)
         IN <<first>> \o SetList(set \ {first})

FlattenNodeSelectorRequirementList(in) ==
    [ gotype |-> SliceOfMap,
      elems  |-> [ i \in 1..Len(in) |->
                     [ key      |-> in[i].Key,
                       values   |-> NewStringSet(in[i].Values),
                       operator |-> in[i].Operator ] ] ]

\* in is the []interface{} the caller asserted
ExpandNodeSelectorRequirementList(in) ==
    [ i \in 1..Len(in) |->
        [ Key      |-> in[i].key,
          Operator |-> in[i].operator,
          Values   |-> ExpandStringSlice(SetList(in[i].values)) ] ]

\* the map att that FlattenNodeSelectorTerm returns in a one-element list
FlattenNodeSelectorTerm(in) ==
    LET present == (IF Len(in.MatchExpressions) > 0 THEN {"match_expressions"} ELSE {})
                   \cup (IF Len(in.MatchFields) > 0 THEN {"match_fields"} ELSE {})
    IN [ f \in present |->
           IF f = "match_expressions"
           THEN FlattenNodeSelectorRequirementList(in.MatchExpressions)
           ELSE FlattenNodeSelectorRequirementList(in.MatchFields) ]

EmptyTerm == [ MatchExpressions |-> <<>>, MatchFields |-> <<>> ]

\* a nil element of a []interface{} list of maps
NilMap == [ k \in {"<nil>"} |-> TRUE ]
IsNil(x) == "<nil>" \in DOMAIN x

\* v, ok := in[f].([]interface{}); ok && len(v) > 0
AssertedList(in, f) ==
    IF f \in DOMAIN in /\ in[f].gotype = SliceOfInterface /\ Len(in[f].elems) > 0
    THEN in[f].elems ELSE <<>>

ExpandNodeSelectorTerm(l) ==
    IF Len(l) = 0 \/ IsNil(l[1]) THEN EmptyTerm
    ELSE LET in == l[1]
         IN [ MatchExpressions |->
                 ExpandNodeSelectorRequirementList(AssertedList(in, "match_expressions")),
              MatchFields |->
                 ExpandNodeSelectorRequirementList(AssertedList(in, "match_fields")) ]

FlattenNodeSelectorTerms(in) ==
    [ i \in 1..Len(in) |-> FlattenNodeSelectorTerm(in[i]) ]

ExpandNodeSelectorTerms(l) ==
    IF Len(l) = 0 \/ IsNil(l[1]) THEN <<>>
    ELSE [ i \in 1..Len(l) |-> ExpandNodeSelectorTerm(<<l[i]>>) ]

\* ---- the package-private copies of core/v1 ----

flattenNodeSelectorRequirementList(in) ==
    [ gotype |-> SliceOfMap,
      elems  |-> [ i \in 1..Len(in) |->
                     [ key      |-> in[i].Key,
                       values   |-> NewStringSet(in[i].Values),
                       operator |-> in[i].Operator ] ] ]

expandNodeSelectorRequirementList(in) ==
    IF Len(in) < 1 THEN <<>>
    ELSE [ i \in 1..Len(in) |->
             [ Key      |-> in[i].key,
               Operator |-> in[i].operator,
               Values   |-> ExpandStringSlice(SetList(in[i].values)) ] ]

flattenNodeSelectorTerm(in) ==
    LET withExpressions ==
            IF Len(in.MatchExpressions) > 0
            THEN "match_expressions" :> flattenNodeSelectorRequirementList(in.MatchExpressions)
            ELSE EmptyMap
        withFields ==
            IF Len(in.MatchFields) > 0
            THEN "match_fields" :> flattenNodeSelectorRequirementList(in.MatchFields)
            ELSE EmptyMap
    IN withFields @@ withExpressions

expandNodeSelectorTerm_FieldsOnly(l) ==
    IF Len(l) = 0 \/ IsNil(l[1]) THEN EmptyTerm
    ELSE LET in == l[1]
         IN [ MatchExpressions |-> <<>>,
              MatchFields |->
                 expandNodeSelectorRequirementList(AssertedList(in, "match_fields")) ]

expandNodeSelectorTerm(l) ==
    IF Len(l) = 0 \/ IsNil(l[1]) THEN EmptyTerm
    ELSE LET in == l[1]
             expressions == AssertedList(in, "match_expressions")
             fields      == AssertedList(in, "match_fields")
         IN [ MatchExpressions |->
                 IF Len(expressions) > 0
                 THEN expandNodeSelectorRequirementList(expressions) ELSE <<>>,
              MatchFields |->
                 IF Len(fields) > 0
                 THEN expandNodeSelectorRequirementList(fields) ELSE <<>> ]

flattenNodeSelectorTerms(in) ==
    [ i \in 1..Len(in) |-> flattenNodeSelectorTerm(in[i]) ]

expandNodeSelectorTerms(l) ==
    IF Len(l) = 0 \/ IsNil(l[1]) THEN <<>>
    ELSE [ i \in 1..Len(l) |-> expandNodeSelectorTerm(<<l[i]>>) ]

NotConverted == [ done |-> FALSE, value |-> <<>> ]

\* the []interface{} that d.Get returns for the configured terms: a term block
\* is a map with both requirement lists, an empty block (nilAt) is nil
ConfiguredRequirements(reqs) ==
    [ gotype |-> SliceOfInterface,
      elems  |-> [ i \in 1..Len(reqs) |->
                     [ key      |-> reqs[i].Key,
                       values   |-> NewStringSet(reqs[i].Values),
                       operator |-> reqs[i].Operator ] ] ]

ConfiguredTerms(ts, nilAt) ==
    [ i \in 1..Len(ts) |->
        IF i = nilAt THEN NilMap
        ELSE [ match_expressions |-> ConfiguredRequirements(ts[i].MatchExpressions),
               match_fields      |-> ConfiguredRequirements(ts[i].MatchFields) ] ]

NumReqs(ts) ==
    LET RECURSIVE Sum(_)
        Sum(i) == IF i = 0 THEN 0
                  ELSE Len(ts[i].MatchExpressions) + Len(ts[i].MatchFields) + Sum(i - 1)
    IN Sum(Len(ts))

\* the object carries one more (empty) term
AddTerm ==
    /\ nsStage = "object"
    /\ Len(nsIn) < MaxTerms
    /\ nsIn' = Append(nsIn, EmptyTerm)
    /\ UNCHANGED <<nsAtt, nsOut, nsStage>>

\* the last term carries one more match_expressions requirement
AddMatchExpression(r) ==
    /\ nsStage = "object"
    /\ Len(nsIn) > 0
    /\ NumReqs(nsIn) < MaxReqs
    /\ nsIn' = [nsIn EXCEPT ![Len(nsIn)].MatchExpressions = Append(@, r)]
    /\ UNCHANGED <<nsAtt, nsOut, nsStage>>

\* the last term carries one more match_fields requirement
AddMatchField(r) ==
    /\ nsStage = "object"
    /\ Len(nsIn) > 0
    /\ NumReqs(nsIn) < MaxReqs
    /\ nsIn' = [nsIn EXCEPT ![Len(nsIn)].MatchFields = Append(@, r)]
    /\ UNCHANGED <<nsAtt, nsOut, nsStage>>

FlattenTerms ==
    /\ nsStage = "object"
    /\ nsAtt' = FlattenNodeSelectorTerms(nsIn)
    /\ nsStage' = "flattened"
    /\ UNCHANGED <<nsIn, nsOut>>

ExpandTerms ==
    /\ nsStage \in { "flattened", "configured" }
    /\ nsOut' = ExpandNodeSelectorTerms(nsAtt)
    /\ nsStage' = IF nsStage = "flattened" THEN "expanded" ELSE "expandedConfigured"
    /\ UNCHANGED <<nsIn, nsAtt>>

\* the terms are read from the configuration instead; the block at nilAt (if
\* any) is empty
ReadConfiguredTerms(nilAt) ==
    /\ nsStage = "object"
    /\ nsAtt' = ConfiguredTerms(nsIn, nilAt)
    /\ nsStage' = "configured"
    /\ UNCHANGED <<nsIn, nsOut>>

\* core/v1 flattens the same terms with its own copy
flattenTerms ==
    /\ nsStage \in { "flattened", "expanded" }
    /\ ~v1Att.done
    /\ v1Att' = [ done |-> TRUE, value |-> flattenNodeSelectorTerms(nsIn) ]
    /\ UNCHANGED v1Out

\* core/v1 expands the same list with its own copy
expandTerms ==
    /\ nsStage \in { "expanded", "expandedConfigured" }
    /\ ~v1Out.done
    /\ v1Out' = [ done |-> TRUE, value |-> expandNodeSelectorTerms(nsAtt) ]
    /\ UNCHANGED v1Att

----------------------------------------------------------------------------
(* Limit ranges.  A value of a resource map is an int, a string or something *)
(* else; a quantity is written in its canonical form.                        *)

ValidQuantities == { "1", "100m" }

IntValue(text)    == [ gotype |-> "int", text |-> text ]
StringValue(text) == [ gotype |-> "string", text |-> text ]
OtherValue        == [ gotype |-> "float64", text |-> "1.5" ]

NoError == [ kind |-> "none", index |-> 0 ]

\* resource.ParseQuantity
ParseQuantity(v) ==
    IF v \in ValidQuantities THEN [ err |-> NoError, q |-> v ]
    ELSE [ err |-> [ kind |-> "parse", index |-> 0 ], q |-> "0" ]

\* one pass of the loop body: the quantity of one value, or its error
ExpandValue(origValue) ==
    IF origValue.gotype = "int" THEN [ err |-> NoError, q |-> origValue.text ]
    ELSE IF origValue.gotype = "string" THEN ParseQuantity(origValue.text)
    ELSE [ err |-> [ kind |-> "type", index |-> 0 ], q |-> "0" ]

\* The map is ranged over in an unspecified order, so the call has a set of
\* possible results: with no bad value, the whole list; else the error of any
\* bad value b, with the values that were visited before b.
ExpandMapToResourceList(m) ==
    LET bad  == { k \in DOMAIN m : ExpandValue(m[k]).err # NoError }
        good == (DOMAIN m) \ bad
    IN IF bad = {}
       THEN { [ err |-> NoError, out |-> [ k \in DOMAIN m |-> ExpandValue(m[k]).q ] ] }
       ELSE { [ err |-> ExpandValue(m[b]).err,
                out |-> [ k \in visited |-> ExpandValue(m[k]).q ] ]
              : b \in bad, visited \in SUBSET good }

ResourceFields == <<"default", "max", "max_limit_request_ratio", "min">>

EmptyItem(type) ==
    [ Type |-> type, DefaultRequest |-> EmptyMap, default |-> EmptyMap,
      max |-> EmptyMap, max_limit_request_ratio |-> EmptyMap, min |-> EmptyMap ]

\* the four fields after default_request, in the order of the code; the item's
\* fields Default, Max, MaxLimitRequestRatio and Min are named as in the input
RECURSIVE ExpandResourceFields(_, _, _)
ExpandResourceFields(limit, lrItem, fields) ==
    IF fields = <<>> THEN { [ err |-> NoError, item |-> lrItem ] }
    ELSE LET f == Head(fields) IN
         IF f \notin DOMAIN limit THEN ExpandResourceFields(limit, lrItem, Tail(fields))
         ELSE UNION { IF el.err # NoError
                      THEN { [ err |-> el.err, item |-> lrItem ] }
                      ELSE ExpandResourceFields(limit, [lrItem EXCEPT ![f] = el.out],
                                                Tail(fields))
                      : el \in ExpandMapToResourceList(limit[f]) }

ExpandLimitItem_PodNotChecked(i, limit, isNew) ==
    LET lrItem == EmptyItem(IF "type" \in DOMAIN limit THEN limit.type ELSE "")
    IN IF "default_request" \in DOMAIN limit
       THEN UNION { IF el.err # NoError
                    THEN { [ err |-> el.err, item |-> lrItem ] }
                    ELSE ExpandResourceFields(limit,
                             [lrItem EXCEPT !.DefaultRequest = el.out], ResourceFields)
                    : el \in ExpandMapToResourceList(limit.default_request) }
       ELSE ExpandResourceFields(limit, lrItem, ResourceFields)

\* the body of the loop over the limits, for the limit at (0-based) index i
ExpandLimitItem(i, limit, isNew) ==
    LET lrItem == EmptyItem(IF "type" \in DOMAIN limit THEN limit.type ELSE "")
    IN IF "default_request" \in DOMAIN limit
       THEN LET drm == limit.default_request IN
            IF lrItem.Type = "Pod" /\ Size(drm) > 0
            THEN IF isNew
                 THEN { [ err |-> [ kind |-> "pod", index |-> i ], item |-> lrItem ] }
                 ELSE ExpandResourceFields(limit, lrItem, ResourceFields)
            ELSE UNION { IF el.err # NoError
                         THEN { [ err |-> el.err, item |-> lrItem ] }
                         ELSE ExpandResourceFields(limit,
                                  [lrItem EXCEPT !.DefaultRequest = el.out], ResourceFields)
                         : el \in ExpandMapToResourceList(drm) }
       ELSE ExpandResourceFields(limit, lrItem, ResourceFields)

RECURSIVE ExpandLimits_PartialOnError(_, _, _, _)
ExpandLimits_PartialOnError(limits, n, newLimits, isNew) ==
    IF n > Len(limits) THEN { [ err |-> NoError, Limits |-> newLimits ] }
    ELSE UNION { IF r.err # NoError
                 THEN { [ err |-> r.err, Limits |-> newLimits ] }
                 ELSE ExpandLimits_PartialOnError(limits, n + 1,
                                                  Append(newLimits, r.item), isNew)
                 : r \in ExpandLimitItem(n - 1, limits[n], isNew) }

\* the loop over the limits from position n on, newLimits filled so far
RECURSIVE ExpandLimits(_, _, _, _)
ExpandLimits(limits, n, newLimits, isNew) ==
    IF n > Len(limits) THEN { [ err |-> NoError, Limits |-> newLimits ] }
    ELSE UNION { IF r.err # NoError
                 THEN { [ err |-> r.err, Limits |-> <<>> ] }
                 ELSE ExpandLimits(limits, n + 1, Append(newLimits, r.item), isNew)
                 : r \in ExpandLimitItem(n - 1, limits[n], isNew) }

\* the possible results (out.Limits, err) of ExpandLimitRangeSpec
ExpandLimitRangeSpec(s, isNew) ==
    IF Len(s) < 1 \/ IsNil(s[1]) THEN { [ err |-> NoError, Limits |-> <<>> ] }
    ELSE LET m == s[1] IN
         IF "limit" \in DOMAIN m
         THEN ExpandLimits(m.limit, 1, <<>>, isNew)
         ELSE { [ err |-> NoError, Limits |-> <<>> ] }

CPU == "cpu"
MEM == "memory"

SampleResourceMaps ==
    { EmptyMap,
      (CPU :> IntValue("1")) @@ (MEM :> StringValue("100m")),
      (CPU :> StringValue("bad")) @@ (MEM :> OtherValue),
      (CPU :> StringValue("100m")) @@ (MEM :> OtherValue) }

LimitTypes == { "Pod", "Container" }

NumLimits(s) == IF Len(s) = 0 \/ IsNil(s[1]) \/ "limit" \notin DOMAIN s[1] THEN 0
                ELSE Len(s[1].limit)

NumFields(s) ==
    LET RECURSIVE Sum(_)
        Sum(i) == IF i = 0 THEN 0
                  ELSE Cardinality((DOMAIN s[1].limit[i]) \ {"type"}) + Sum(i - 1)
    IN Sum(NumLimits(s))

\* the configuration has a nil spec block
SetNilSpec ==
    /\ ~lrRes.done
    /\ lrS = <<>>
    /\ lrS' = <<NilMap>>
    /\ UNCHANGED <<lrIsNew, lrRes>>

\* the configuration has a spec block with no limit yet
SetEmptySpec ==
    /\ ~lrRes.done
    /\ lrS = <<>>
    /\ lrS' = << [ limit |-> <<>> ] >>
    /\ UNCHANGED <<lrIsNew, lrRes>>

\* the spec block has one more limit, of some type
AddLimit(l) ==
    /\ ~lrRes.done
    /\ Len(lrS) = 1 /\ ~IsNil(lrS[1])
    /\ NumLimits(lrS) < MaxLimits
    /\ lrS' = << [ limit |-> Append(lrS[1].limit, l) ] >>
    /\ UNCHANGED <<lrIsNew, lrRes>>

\* the last limit sets the resource map f
SetLimitField(f, rm) ==
    /\ ~lrRes.done
    /\ NumLimits(lrS) > 0
    /\ NumFields(lrS) < MaxFields
    /\ LET n == NumLimits(lrS)
           l == lrS[1].limit[n]
       IN /\ f \notin DOMAIN l
          /\ lrS' = << [ limit |-> [lrS[1].limit EXCEPT ![n] = (f :> rm) @@ l] ] >>
    /\ UNCHANGED <<lrIsNew, lrRes>>

ExpandLimitRange ==
    /\ ~lrRes.done
    /\ \E r \in ExpandLimitRangeSpec(lrS, lrIsNew) :
          lrRes' = [ done |-> TRUE, err |-> r.err, Limits |-> r.Limits ]
    /\ UNCHANGED <<lrS, lrIsNew>>

(* SpecLimit: a limit range spec is written, then expanded.                 *)

InitLimit ==
    /\ lrS = <<>>
    /\ lrIsNew \in BOOLEAN
    /\ lrRes = [ done |-> FALSE, err |-> NoError, Limits |-> <<>> ]
    /\ InitMetaIdle /\ InitCreateIdle /\ InitSecretIdle /\ InitNodeIdle
    /\ InitIdIdle /\ InitReadIdle /\ InitCopyIdle

NextLimit ==
    \/ /\ SetNilSpec
       /\ UNCHANGED <<metaVars, createVars, secretVars, nodeVars,
                    idVars, readVars, copyVars>>
    \/ /\ SetEmptySpec
       /\ UNCHANGED <<metaVars, createVars, secretVars, nodeVars,
                    idVars, readVars, copyVars>>
    \/ /\ \E t \in LimitTypes : AddLimit([ type |-> t ])
       /\ UNCHANGED <<metaVars, createVars, secretVars, nodeVars,
                    idVars, readVars, copyVars>>
    \/ /\ \E f \in {"default_request"} \cup Range(ResourceFields) :
             \E rm \in SampleResourceMaps : SetLimitField(f, rm)
       /\ UNCHANGED <<metaVars, createVars, secretVars, nodeVars,
                    idVars, readVars, copyVars>>
    \/ /\ ExpandLimitRange
       /\ UNCHANGED <<metaVars, createVars, secretVars, nodeVars,
                    idVars, readVars, copyVars>>

SpecLimit == InitLimit /\ [][NextLimit]_vars

----------------------------------------------------------------------------
(* The default service account create *)

BuildId(objMeta) == objMeta.Namespace \o <<"/">> \o objMeta.Name

\* all the orders in which a range over the keys S can visit them
RECURSIVE Orders(_)
Orders(S) ==
    IF S = {} THEN { <<>> }
    ELSE UNION { { <<k>> \o rest : rest \in Orders(S \ {k}) } : k \in S }

\* The possible results of DiffStringMap: one add of the whole map when the old
\* map is empty; else a remove per key that is gone, then a replace or an add
\* per key whose value is new, each group in the order of a range over a map.
DiffStringMap(pathPrefix, oldV, newV) ==
    IF Size(oldV) = 0
    THEN { << [ op |-> "add", path |-> <<pathPrefix>>, value |-> "map" ] >> }
    ELSE LET gone == (DOMAIN oldV) \ (DOMAIN newV)
             set  == { k \in DOMAIN newV : k \notin DOMAIN oldV \/ oldV[k] # newV[k] }
             Remove(k) == [ op |-> "remove", path |-> <<pathPrefix, k>>, value |-> "" ]
             Write(k)  == [ op |-> IF k \in DOMAIN oldV THEN "replace" ELSE "add",
                            path |-> <<pathPrefix, k>>, value |-> newV[k] ]
         IN { [ i \in 1..Len(r) |-> Remove(r[i]) ] \o [ i \in 1..Len(w) |-> Write(w[i]) ]
              : r \in Orders(gone), w \in Orders(set) }

HasChange(change) == change.old # change.new

\* the possible results of PatchMetadata(keyPrefix, pathPrefix, d)
PatchMetadata(pathPrefix, annotations, labels) ==
    LET a == IF HasChange(annotations)
             THEN DiffStringMap(pathPrefix \o "annotations", annotations.old, annotations.new)
             ELSE { <<>> }
        l == IF HasChange(labels)
             THEN DiffStringMap(pathPrefix \o "labels", labels.old, labels.new)
             ELSE { <<>> }
    IN { x \o y : x \in a, y \in l }

ExpandLocalObjectReferenceArray(in) ==
    [ i \in 1..Len(in) |->
        [ Name |-> IF "name" \in DOMAIN in[i] THEN in[i].name ELSE "" ] ]

Call(op, result) == [ op |-> op, result |-> result ]

\* meta.(KubeClientsets).MainClientset() fails
ClientsetFails ==
    /\ pc = "start"
    /\ diags' = <<"clientset error">>
    /\ pc' = "done"
    /\ UNCHANGED <<id, calls, attempts, default_secret_name, ops, plan>>

\* the client set is there; the retry loop is entered
ClientsetReady ==
    /\ pc = "start"
    /\ pc' = "retry"
    /\ UNCHANGED <<id, calls, diags, attempts, default_secret_name, ops, plan>>

GetNotFound_Proceeds ==
    /\ pc = "retry"
    /\ attempts < MaxAttempts
    /\ calls' = Append(calls, Call("Get", "NotFound"))
    /\ attempts' = attempts + 1
    /\ pc' = "secret"
    /\ UNCHANGED <<id, diags, default_secret_name, ops, plan>>

\* Get answers NotFound: a retryable error, the loop goes round again
GetNotFound ==
    /\ pc = "retry"
    /\ attempts < MaxAttempts
    /\ calls' = Append(calls, Call("Get", "NotFound"))
    /\ attempts' = attempts + 1
    /\ UNCHANGED <<pc, id, diags, default_secret_name, ops, plan>>

\* Get fails with another error: not retryable, the create returns it
GetFails ==
    /\ pc = "retry"
    /\ calls' = Append(calls, Call("Get", "Error"))
    /\ diags' = <<"get error">>
    /\ pc' = "done"
    /\ UNCHANGED <<id, attempts, default_secret_name, ops, plan>>

GetSucceeds_Retries ==
    /\ pc = "retry"
    /\ attempts < MaxAttempts
    /\ calls' = Append(calls, Call("Get", "OK"))
    /\ attempts' = attempts + 1
    /\ UNCHANGED <<pc, id, diags, default_secret_name, ops, plan>>

\* Get succeeds: the loop ends without error
GetSucceeds ==
    /\ pc = "retry"
    /\ calls' = Append(calls, Call("Get", "OK"))
    /\ pc' = "secret"
    /\ UNCHANGED <<id, diags, attempts, default_secret_name, ops, plan>>

\* the create timeout expires (or the context is cancelled) inside the loop
RetryTimeout ==
    /\ pc = "retry"
    /\ diags' = <<"timeout">>
    /\ pc' = "done"
    /\ UNCHANGED <<id, calls, attempts, default_secret_name, ops, plan>>

\* getServiceAccountDefaultSecret fails
DefaultSecretFails ==
    /\ pc = "secret"
    /\ calls' = Append(calls, Call("DefaultSecret", "Error"))
    /\ diags' = <<"default secret error">>
    /\ pc' = "done"
    /\ UNCHANGED <<id, attempts, default_secret_name, ops, plan>>

AttributeOperations_AutomountIfChanged(secretName) ==
    (IF plan.image_pull_secret.changed
     THEN << [ op |-> "replace", path |-> <<"/imagePullSecrets">>,
               value |-> ExpandLocalObjectReferenceArray(plan.image_pull_secret.list) ] >>
     ELSE <<>>)
    \o (IF plan.secret.changed
        THEN << [ op |-> "replace", path |-> <<"/secrets">>,
                  value |-> ExpandServiceAccountSecrets(plan.secret.list, secretName) ] >>
        ELSE <<>>)
    \o (IF plan.automount_service_account_token
        THEN << [ op |-> "replace", path |-> <<"/automountServiceAccountToken">>,
                  value |-> plan.automount_service_account_token ] >>
        ELSE <<>>)

\* the /imagePullSecrets, /secrets and /automountServiceAccountToken operations
\* that follow the metadata operations
AttributeOperations(secretName) ==
    (IF plan.image_pull_secret.changed
     THEN << [ op |-> "replace", path |-> <<"/imagePullSecrets">>,
               value |-> ExpandLocalObjectReferenceArray(plan.image_pull_secret.list) ] >>
     ELSE <<>>)
    \o (IF plan.secret.changed
        THEN << [ op |-> "replace", path |-> <<"/secrets">>,
                  value |-> ExpandServiceAccountSecrets(plan.secret.list, secretName) ] >>
        ELSE <<>>)
    \o << [ op |-> "replace", path |-> <<"/automountServiceAccountToken">>,
            value |-> plan.automount_service_account_token ] >>

DefaultSecretFound_SetsId(secretName) ==
    /\ pc = "secret"
    /\ calls' = Append(calls, Call("DefaultSecret", "OK"))
    /\ default_secret_name' = secretName
    /\ \E mops \in PatchMetadata("/metadata/", plan.annotations, plan.labels) :
          ops' = mops \o AttributeOperations(secretName)
    /\ id' = BuildId(plan.metadata)
    /\ pc' = "patch"
    /\ UNCHANGED <<diags, attempts, plan>>

\* getServiceAccountDefaultSecret returns the secret; default_secret_name is
\* set and the patch operations are built
DefaultSecretFound(secretName) ==
    /\ pc = "secret"
    /\ calls' = Append(calls, Call("DefaultSecret", "OK"))
    /\ default_secret_name' = secretName
    /\ \E mops \in PatchMetadata("/metadata/", plan.annotations, plan.labels) :
          ops' = mops \o AttributeOperations(secretName)
    /\ pc' = "patch"
    /\ UNCHANGED <<id, diags, attempts, plan>>

\* ops.MarshalJSON() fails
MarshalFails ==
    /\ pc = "patch"
    /\ diags' = <<"Failed to marshal update operations">>
    /\ pc' = "done"
    /\ UNCHANGED <<id, calls, attempts, default_secret_name, ops, plan>>

\* the Patch request is refused
PatchFails ==
    /\ pc = "patch"
    /\ calls' = Append(calls, Call("Patch", "Error"))
    /\ diags' = <<"Failed to update default service account">>
    /\ pc' = "done"
    /\ UNCHANGED <<id, attempts, default_secret_name, ops, plan>>

\* the Patch request is accepted; the ID is set
PatchAccepted ==
    /\ pc = "patch"
    /\ calls' = Append(calls, Call("Patch", "OK"))
    /\ id' = BuildId(plan.metadata)
    /\ pc' = "read"
    /\ UNCHANGED <<diags, attempts, default_secret_name, ops, plan>>

\* resourceKubernetesServiceAccountRead: it returns its diagnostics, and it
\* clears the ID when the service account is gone
ReadResource(outcome) ==
    /\ pc = "read"
    /\ calls' = Append(calls, Call("Read", outcome))
    /\ diags' = IF outcome = "Error" THEN <<"read error">> ELSE <<>>
    /\ id' = IF outcome = "Gone" THEN <<>> ELSE id
    /\ pc' = "done"
    /\ UNCHANGED <<attempts, default_secret_name, ops, plan>>

DefaultSecretNames == { "", "token" }
ReadOutcomes == { "OK", "Error", "Gone" }

InitCreate ==
    /\ pc = "start"
    /\ id = <<>>
    /\ calls = <<>>
    /\ diags = <<>>
    /\ attempts = 0
    /\ default_secret_name = ""
    /\ ops = <<>>
    /\ plan \in Plans
    /\ InitMetaIdle /\ InitLimitIdle /\ InitSecretIdle /\ InitNodeIdle
    /\ InitIdIdle /\ InitReadIdle /\ InitCopyIdle

NextCreate ==
    \/ /\ ClientsetFails
       /\ UNCHANGED <<metaVars, limitVars, secretVars, nodeVars,
                    idVars, readVars, copyVars>>
    \/ /\ ClientsetReady
       /\ UNCHANGED <<metaVars, limitVars, secretVars, nodeVars,
                    idVars, readVars, copyVars>>
    \/ /\ GetNotFound
       /\ UNCHANGED <<metaVars, limitVars, secretVars, nodeVars,
                    idVars, readVars, copyVars>>
    \/ /\ GetFails
       /\ UNCHANGED <<metaVars, limitVars, secretVars, nodeVars,
                    idVars, readVars, copyVars>>
    \/ /\ GetSucceeds
       /\ UNCHANGED <<metaVars, limitVars, secretVars, nodeVars,
                    idVars, readVars, copyVars>>
    \/ /\ RetryTimeout
       /\ UNCHANGED <<metaVars, limitVars, secretVars, nodeVars,
                    idVars, readVars, copyVars>>
    \/ /\ DefaultSecretFails
       /\ UNCHANGED <<metaVars, limitVars, secretVars, nodeVars,
                    idVars, readVars, copyVars>>
    \/ /\ \E n \in DefaultSecretNames : DefaultSecretFound(n)
       /\ UNCHANGED <<metaVars, limitVars, secretVars, nodeVars,
                    idVars, readVars, copyVars>>
    \/ /\ MarshalFails
       /\ UNCHANGED <<metaVars, limitVars, secretVars, nodeVars,
                    idVars, readVars, copyVars>>
    \/ /\ PatchFails
       /\ UNCHANGED <<metaVars, limitVars, secretVars, nodeVars,
                    idVars, readVars, copyVars>>
    \/ /\ PatchAccepted
       /\ UNCHANGED <<metaVars, limitVars, secretVars, nodeVars,
                    idVars, readVars, copyVars>>
    \/ /\ \E o \in ReadOutcomes : ReadResource(o)
       /\ UNCHANGED <<metaVars, limitVars, secretVars, nodeVars,
                    idVars, readVars, copyVars>>

SpecCreate == InitCreate /\ [][NextCreate]_vars

\* The create keeps running until it returns, and the timer of the retry loop
\* fires when the create timeout has expired.
FairSpecCreate == SpecCreate /\ WF_vars(NextCreate)

(* SpecSecrets: a secret list is expanded, then flattened.                  *)

InitSecrets ==
    /\ saIn = <<>>
    /\ saDef \in SecretNames
    /\ saAtt = <<>>
    /\ saOut = <<>>
    /\ saStage = "config"
    /\ InitMetaIdle /\ InitCreateIdle /\ InitLimitIdle /\ InitNodeIdle
    /\ InitIdIdle /\ InitReadIdle /\ InitCopyIdle

NextSecrets ==
    \/ /\ \E e \in SecretEntries : AddSecretEntry(e)
       /\ UNCHANGED <<metaVars, createVars, limitVars, nodeVars,
                    idVars, readVars, copyVars>>
    \/ /\ ExpandSecrets
       /\ UNCHANGED <<metaVars, createVars, limitVars, nodeVars,
                    idVars, readVars, copyVars>>
    \/ /\ FlattenSecrets
       /\ UNCHANGED <<metaVars, createVars, limitVars, nodeVars,
                    idVars, readVars, copyVars>>

SpecSecrets == InitSecrets /\ [][NextSecrets]_vars

(* SpecNode: node selector terms are flattened, then expanded.              *)

InitNode ==
    /\ nsIn = <<>>
    /\ nsAtt = <<>>
    /\ nsOut = <<>>
    /\ nsStage = "object"
    /\ InitMetaIdle /\ InitCreateIdle /\ InitLimitIdle /\ InitSecretIdle
    /\ InitIdIdle /\ InitReadIdle /\ InitCopyIdle

NextNode ==
    \/ /\ AddTerm
       /\ UNCHANGED <<metaVars, createVars, limitVars, secretVars,
                    idVars, readVars, copyVars>>
    \/ /\ \E r \in NodeRequirements : AddMatchExpression(r)
       /\ UNCHANGED <<metaVars, createVars, limitVars, secretVars,
                    idVars, readVars, copyVars>>
    \/ /\ \E r \in NodeRequirements : AddMatchField(r)
       /\ UNCHANGED <<metaVars, createVars, limitVars, secretVars,
                    idVars, readVars, copyVars>>
    \/ /\ FlattenTerms
       /\ UNCHANGED <<metaVars, createVars, limitVars, secretVars,
                    idVars, readVars, copyVars>>
    \/ /\ ExpandTerms
       /\ UNCHANGED <<metaVars, createVars, limitVars, secretVars,
                    idVars, readVars, copyVars>>

SpecNode == InitNode /\ [][NextNode]_vars

(* SpecCopies: node selector terms are converted by the structures package *)
(* and by the copies of core/v1, from the object and from the              *)
(* configuration.                                                          *)

InitCopies ==
    /\ nsIn = <<>>
    /\ nsAtt = <<>>
    /\ nsOut = <<>>
    /\ nsStage = "object"
    /\ v1Att = NotConverted
    /\ v1Out = NotConverted
    /\ InitMetaIdle /\ InitCreateIdle /\ InitLimitIdle /\ InitSecretIdle
    /\ InitIdIdle /\ InitReadIdle

NextCopies ==
    \/ /\ AddTerm
       /\ UNCHANGED <<metaVars, createVars, limitVars, secretVars, idVars, readVars, copyVars>>
    \/ /\ \E r \in NodeRequirements : AddMatchExpression(r)
       /\ UNCHANGED <<metaVars, createVars, limitVars, secretVars, idVars, readVars, copyVars>>
    \/ /\ \E r \in NodeRequirements : AddMatchField(r)
       /\ UNCHANGED <<metaVars, createVars, limitVars, secretVars, idVars, readVars, copyVars>>
    \/ /\ FlattenTerms
       /\ UNCHANGED <<metaVars, createVars, limitVars, secretVars, idVars, readVars, copyVars>>
    \/ /\ \E nilAt \in 0..Len(nsIn) : ReadConfiguredTerms(nilAt)
       /\ UNCHANGED <<metaVars, createVars, limitVars, secretVars, idVars, readVars, copyVars>>
    \/ /\ ExpandTerms
       /\ UNCHANGED <<metaVars, createVars, limitVars, secretVars, idVars, readVars, copyVars>>
    \/ /\ flattenTerms
       /\ UNCHANGED <<metaVars, createVars, limitVars, secretVars, idVars, readVars, nodeVars>>
    \/ /\ expandTerms
       /\ UNCHANGED <<metaVars, createVars, limitVars, secretVars, idVars, readVars, nodeVars>>

SpecCopies == InitCopies /\ [][NextCopies]_vars

----------------------------------------------------------------------------
(* Resource IDs.  An ID is a string; "/" is a token of its own, so that    *)
(* strings.Split(id, "/") is decided by the token sequence.                *)

IdTokens == { "a", "b", "/" }

\* strings.Split(s, "/"): the parts between the separators, n + 1 parts for
\* n separators (one empty part for the empty string)
RECURSIVE Split(_)
Split(s) ==
    IF \A i \in 1..Len(s) : s[i] # "/"
    THEN << s >>
    ELSE LET i == CHOOSE j \in 1..Len(s) :
                     /\ s[j] = "/"
                     /\ \A k \in 1..(j - 1) : s[k] # "/"
         IN  << SubSeq(s, 1, i - 1) >> \o Split(SubSeq(s, i + 1, Len(s)))

IdParts_AtLeastTwoParts(id_) ==
    LET parts == Split(id_)
    IN  IF Len(parts) < 2
        THEN [ namespace |-> <<>>, name |-> <<>>, err |-> TRUE ]
        ELSE [ namespace |-> parts[1], name |-> parts[2], err |-> FALSE ]

IdParts(id_) ==
    LET parts == Split(id_)
    IN  IF Len(parts) # 2
        THEN [ namespace |-> <<>>, name |-> <<>>, err |-> TRUE ]
        ELSE [ namespace |-> parts[1], name |-> parts[2], err |-> FALSE ]

\* the metadata of the configuration, one field at a time
AppendNamespaceToken(t) ==
    /\ idStage = "meta"
    /\ idName = <<>>
    /\ Len(idNamespace) < MaxIdLen
    /\ idNamespace' = Append(idNamespace, t)
    /\ UNCHANGED <<idName, idStr, idRes, idStage>>

AppendNameToken(t) ==
    /\ idStage = "meta"
    /\ Len(idName) < MaxIdLen
    /\ idName' = Append(idName, t)
    /\ UNCHANGED <<idNamespace, idStr, idRes, idStage>>

\* d.SetId(structures.BuildId(om))
SetBuiltId ==
    /\ idStage = "meta"
    /\ idStr' = BuildId([ Namespace |-> idNamespace, Name |-> idName ])
    /\ idStage' = "built"
    /\ UNCHANGED <<idNamespace, idName, idRes>>

\* an ID that did not come from BuildId (an imported ID), token by token
AppendIdToken(t) ==
    /\ \/ idStage = "raw"
       \/ idStage = "meta" /\ idNamespace = <<>> /\ idName = <<>>
    /\ Len(idStr) < MaxIdLen
    /\ idStr' = Append(idStr, t)
    /\ idStage' = "raw"
    /\ UNCHANGED <<idNamespace, idName, idRes>>

ParseId ==
    /\ idStage \in { "built", "raw", "meta" }
    /\ idRes' = IdParts(idStr)
    /\ idStage' = IF idStage = "built" THEN "parsedBuilt" ELSE "parsedRaw"
    /\ UNCHANGED <<idNamespace, idName, idStr>>

InitId ==
    /\ idNamespace = <<>>
    /\ idName = <<>>
    /\ idStr = <<>>
    /\ idRes = [ namespace |-> <<>>, name |-> <<>>, err |-> FALSE ]
    /\ idStage = "meta"
    /\ InitMetaIdle /\ InitCreateIdle /\ InitLimitIdle /\ InitSecretIdle
    /\ InitNodeIdle /\ InitReadIdle /\ InitCopyIdle

NextId ==
    \/ /\ \E t \in IdTokens : AppendNamespaceToken(t)
       /\ UNCHANGED <<metaVars, createVars, limitVars, secretVars, nodeVars,
                    readVars, copyVars>>
    \/ /\ \E t \in IdTokens : AppendNameToken(t)
       /\ UNCHANGED <<metaVars, createVars, limitVars, secretVars, nodeVars,
                    readVars, copyVars>>
    \/ /\ SetBuiltId
       /\ UNCHANGED <<metaVars, createVars, limitVars, secretVars, nodeVars,
                    readVars, copyVars>>
    \/ /\ \E t \in IdTokens : AppendIdToken(t)
       /\ UNCHANGED <<metaVars, createVars, limitVars, secretVars, nodeVars,
                    readVars, copyVars>>
    \/ /\ ParseId
       /\ UNCHANGED <<metaVars, createVars, limitVars, secretVars, nodeVars,
                    readVars, copyVars>>

SpecId == InitId /\ [][NextId]_vars

----------------------------------------------------------------------------
(* The data source reads of namespace, pod and service account.  rCalls    *)
(* records the API requests and the SetId calls in the order they happen.  *)

ReadKinds      == { "namespace", "pod", "service_account" }
ReadNames      == { <<>>, <<"a">> }     \* metadata.0.name, empty when not configured
ReadNamespaces == { <<>>, <<"ns">> }    \* metadata.0.namespace
LookupDiags    == { <<>>, <<"lookup warning">>, <<"lookup warning", "lookup error">> }

\* ---- dataSourceKubernetesNamespaceRead ----

NamespaceClientsetFails ==
    /\ rKind = "namespace" /\ rpc = "start"
    /\ rDiags' = <<"clientset error">>
    /\ rpc' = "done"
    /\ UNCHANGED <<rKind, rMeta, rId, rWritten, rCalls, diagMsg, rReadDiags>>

\* d.SetId(metadata.Name)
NamespaceSetId ==
    /\ rKind = "namespace" /\ rpc = "start"
    /\ rId' = rMeta.Name
    /\ rCalls' = Append(rCalls, Call("SetId", ""))
    /\ rpc' = "get"
    /\ UNCHANGED <<rKind, rMeta, rWritten, rDiags, diagMsg, rReadDiags>>

NamespaceGetFails ==
    /\ rKind = "namespace" /\ rpc = "get"
    /\ rCalls' = Append(rCalls, Call("Get", "Error"))
    /\ rDiags' = <<"get error">>
    /\ rpc' = "done"
    /\ UNCHANGED <<rKind, rMeta, rId, rWritten, diagMsg, rReadDiags>>

\* Get succeeds; metadata and spec are set in turn, the first d.Set that
\* fails (failAt) ends the read with its error
NamespaceGetSucceeds(failAt) ==
    /\ rKind = "namespace" /\ rpc = "get"
    /\ rCalls' = Append(rCalls, Call("Get", "OK"))
    /\ rWritten' = CASE failAt = "metadata" -> rWritten
                     [] failAt = "spec"     -> rWritten \cup { "metadata" }
                     [] OTHER               -> rWritten \cup { "metadata", "spec" }
    /\ rDiags' = IF failAt = "none" THEN <<>> ELSE <<"set error">>
    /\ rpc' = "done"
    /\ UNCHANGED <<rKind, rMeta, rId, diagMsg, rReadDiags>>

\* ---- dataSourceKubernetesPodRead ----

PodClientsetFails ==
    /\ rKind = "pod" /\ rpc = "start"
    /\ rDiags' = <<"clientset error">>
    /\ rpc' = "done"
    /\ UNCHANGED <<rKind, rMeta, rId, rWritten, rCalls, diagMsg, rReadDiags>>

PodSetId_AfterGet ==
    /\ rKind = "pod" /\ rpc = "start"
    /\ rpc' = "get"
    /\ UNCHANGED <<rKind, rMeta, rId, rWritten, rCalls, rDiags, diagMsg, rReadDiags>>

\* d.SetId(structures.BuildId(om))
PodSetId ==
    /\ rKind = "pod" /\ rpc = "start"
    /\ rId' = BuildId([ Namespace |-> rMeta.Namespace, Name |-> rMeta.Name ])
    /\ rCalls' = Append(rCalls, Call("SetId", ""))
    /\ rpc' = "get"
    /\ UNCHANGED <<rKind, rMeta, rWritten, rDiags, diagMsg, rReadDiags>>

PodGetFails ==
    /\ rKind = "pod" /\ rpc = "get"
    /\ rCalls' = Append(rCalls, Call("Get", "Error"))
    /\ rDiags' = <<"get error">>
    /\ rpc' = "done"
    /\ UNCHANGED <<rKind, rMeta, rId, rWritten, diagMsg, rReadDiags>>

\* Get succeeds; metadata is set, the pod spec is flattened and set, and the
\* status is set; the first step that fails (failAt) ends the read
PodGetSucceeds(failAt) ==
    /\ rKind = "pod" /\ rpc = "get"
    /\ rCalls' = Append(rCalls, Call("Get", "OK"))
    /\ rWritten' = CASE failAt = "metadata"       -> rWritten
                     [] failAt = "FlattenPodSpec" -> rWritten \cup { "metadata" }
                     [] failAt = "spec"           -> rWritten \cup { "metadata" }
                     [] OTHER -> rWritten \cup { "metadata", "spec", "status" }
    /\ rDiags' = IF failAt = "none" THEN <<>> ELSE <<"set error">>
    /\ rpc' = "done"
    /\ UNCHANGED <<rKind, rMeta, rId, diagMsg, rReadDiags>>

\* ---- dataSourceKubernetesServiceAccountRead ----

ServiceAccountClientsetFails ==
    /\ rKind = "service_account" /\ rpc = "start"
    /\ rDiags' = <<"clientset error">>
    /\ rpc' = "done"
    /\ UNCHANGED <<rKind, rMeta, rId, rWritten, rCalls, diagMsg, rReadDiags>>

ServiceAccountGetFails ==
    /\ rKind = "service_account" /\ rpc = "start"
    /\ rCalls' = Append(rCalls, Call("Get", "Error"))
    /\ rDiags' = <<"Unable to fetch service account from Kubernetes">>
    /\ rpc' = "done"
    /\ UNCHANGED <<rKind, rMeta, rId, rWritten, diagMsg, rReadDiags>>

ServiceAccountGetSucceeds ==
    /\ rKind = "service_account" /\ rpc = "start"
    /\ rCalls' = Append(rCalls, Call("Get", "OK"))
    /\ rpc' = "lookup"
    /\ UNCHANGED <<rKind, rMeta, rId, rWritten, rDiags, diagMsg, rReadDiags>>

\* findDefaultServiceAccount returns the secret name and its diagnostics
FindDefaultServiceAccount(dm) ==
    /\ rKind = "service_account" /\ rpc = "lookup"
    /\ rCalls' = Append(rCalls, Call("DefaultSecret", IF dm = <<>> THEN "OK" ELSE "Diagnostics"))
    /\ diagMsg' = dm
    /\ rpc' = "set"
    /\ UNCHANGED <<rKind, rMeta, rId, rWritten, rDiags, rReadDiags>>

\* d.Set("default_secret_name", defaultSecret) fails: the read returns
DefaultSecretNameNotSet ==
    /\ rKind = "service_account" /\ rpc = "set"
    /\ rDiags' = <<"Unable to set default_secret_name">>
    /\ rpc' = "done"
    /\ UNCHANGED <<rKind, rMeta, rId, rWritten, rCalls, diagMsg, rReadDiags>>

\* d.Set("default_secret_name", defaultSecret) succeeds; then
\* d.SetId(structures.BuildId(sa.ObjectMeta))
DefaultSecretNameSet ==
    /\ rKind = "service_account" /\ rpc = "set"
    /\ rWritten' = rWritten \cup { "default_secret_name" }
    /\ rId' = BuildId([ Namespace |-> rMeta.Namespace, Name |-> rMeta.Name ])
    /\ rCalls' = Append(rCalls, Call("SetId", ""))
    /\ rpc' = "read"
    /\ UNCHANGED <<rKind, rMeta, rDiags, diagMsg, rReadDiags>>

ServiceAccountResourceRead_OnlyReadDiags(outcome) ==
    /\ rKind = "service_account" /\ rpc = "read"
    /\ rCalls' = Append(rCalls, Call("Read", outcome))
    /\ rReadDiags' = IF outcome = "Error" THEN <<"read error">> ELSE <<>>
    /\ rDiags' = rReadDiags'
    /\ rId' = IF outcome = "Gone" THEN <<>> ELSE rId
    /\ rWritten' = IF outcome = "OK"
                   THEN rWritten \cup { "metadata", "image_pull_secret", "secret",
                                        "automount_service_account_token" }
                   ELSE rWritten
    /\ rpc' = "done"
    /\ UNCHANGED <<rKind, rMeta, diagMsg>>

\* diagMsg = append(diagMsg, resourceKubernetesServiceAccountRead(ctx, d, meta)...)
\* and return diagMsg; the resource read clears the ID when the service
\* account is gone
ServiceAccountResourceRead(outcome) ==
    /\ rKind = "service_account" /\ rpc = "read"
    /\ rCalls' = Append(rCalls, Call("Read", outcome))
    /\ rReadDiags' = IF outcome = "Error" THEN <<"read error">> ELSE <<>>
    /\ rDiags' = diagMsg \o rReadDiags'
    /\ rId' = IF outcome = "Gone" THEN <<>> ELSE rId
    /\ rWritten' = IF outcome = "OK"
                   THEN rWritten \cup { "metadata", "image_pull_secret", "secret",
                                        "automount_service_account_token" }
                   ELSE rWritten
    /\ rpc' = "done"
    /\ UNCHANGED <<rKind, rMeta, diagMsg>>

InitRead ==
    /\ rKind \in ReadKinds
    /\ rMeta \in [ Name : ReadNames, Namespace : ReadNamespaces ]
    /\ rpc = "start"
    /\ rId = <<>>
    /\ rWritten = {}
    /\ rCalls = <<>>
    /\ rDiags = <<>>
    /\ diagMsg = <<>>
    /\ rReadDiags = <<>>
    /\ InitMetaIdle /\ InitCreateIdle /\ InitLimitIdle /\ InitSecretIdle
    /\ InitNodeIdle /\ InitIdIdle /\ InitCopyIdle

NextRead ==
    \/ /\ NamespaceClientsetFails
       /\ UNCHANGED <<metaVars, createVars, limitVars, secretVars, nodeVars,
                    idVars, copyVars>>
    \/ /\ NamespaceSetId
       /\ UNCHANGED <<metaVars, createVars, limitVars, secretVars, nodeVars,
                    idVars, copyVars>>
    \/ /\ NamespaceGetFails
       /\ UNCHANGED <<metaVars, createVars, limitVars, secretVars, nodeVars,
                    idVars, copyVars>>
    \/ /\ \E failAt \in { "none", "metadata", "spec" } : NamespaceGetSucceeds(failAt)
       /\ UNCHANGED <<metaVars, createVars, limitVars, secretVars, nodeVars,
                    idVars, copyVars>>
    \/ /\ PodClientsetFails
       /\ UNCHANGED <<metaVars, createVars, limitVars, secretVars, nodeVars,
                    idVars, copyVars>>
    \/ /\ PodSetId
       /\ UNCHANGED <<metaVars, createVars, limitVars, secretVars, nodeVars,
                    idVars, copyVars>>
    \/ /\ PodGetFails
       /\ UNCHANGED <<metaVars, createVars, limitVars, secretVars, nodeVars,
                    idVars, copyVars>>
    \/ /\ \E failAt \in { "none", "metadata", "FlattenPodSpec", "spec" } :
             PodGetSucceeds(failAt)
       /\ UNCHANGED <<metaVars, createVars, limitVars, secretVars, nodeVars,
                    idVars, copyVars>>
    \/ /\ ServiceAccountClientsetFails
       /\ UNCHANGED <<metaVars, createVars, limitVars, secretVars, nodeVars,
                    idVars, copyVars>>
    \/ /\ ServiceAccountGetFails
       /\ UNCHANGED <<metaVars, createVars, limitVars, secretVars, nodeVars,
                    idVars, copyVars>>
    \/ /\ ServiceAccountGetSucceeds
       /\ UNCHANGED <<metaVars, createVars, limitVars, secretVars, nodeVars,
                    idVars, copyVars>>
    \/ /\ \E dm \in LookupDiags : FindDefaultServiceAccount(dm)
       /\ UNCHANGED <<metaVars, createVars, limitVars, secretVars, nodeVars,
                    idVars, copyVars>>
    \/ /\ DefaultSecretNameNotSet
       /\ UNCHANGED <<metaVars, createVars, limitVars, secretVars, nodeVars,
                    idVars, copyVars>>
    \/ /\ DefaultSecretNameSet
       /\ UNCHANGED <<metaVars, createVars, limitVars, secretVars, nodeVars,
                    idVars, copyVars>>
    \/ /\ \E outcome \in ReadOutcomes : ServiceAccountResourceRead(outcome)
       /\ UNCHANGED <<metaVars, createVars, limitVars, secretVars, nodeVars,
                    idVars, copyVars>>

SpecRead == InitRead /\ [][NextRead]_vars


----------------------------------------------------------------------------
(* Claims about the metadata reconciliation layer *)

IgnoredAnnotation(k) == ignoreKey(k, ExpandStringSlice(ignoreAnnotations))
IgnoredLabel(k)      == ignoreKey(k, ExpandStringSlice(ignoreLabels))

\* C1: after FlattenMetadata, a key is in the flattened annotations (labels)
\* exactly when it is on the server object and is either configured or neither
\* internal nor ignored; the kept keys carry the server's values.
C1_FlattenHidesExactly ==
    flat.done =>
        /\ \A k \in SampleKeys \cup DOMAIN flat.m.annotations :
              (k \in DOMAIN flat.m.annotations) <=>
                 /\ k \in DOMAIN orig.Annotations
                 /\ \/ k \in DOMAIN configAnnotations
                    \/ ~IsInternalKey(k) /\ ~IgnoredAnnotation(k)
        /\ \A k \in DOMAIN flat.m.annotations : flat.m.annotations[k] = orig.Annotations[k]
        /\ \A k \in SampleKeys \cup DOMAIN flat.m.labels :
              (k \in DOMAIN flat.m.labels) <=>
                 /\ k \in DOMAIN orig.Labels
                 /\ \/ k \in DOMAIN configLabels
                    \/ ~IsInternalKey(k) /\ ~IgnoredLabel(k)
        /\ \A k \in DOMAIN flat.m.labels : flat.m.labels[k] = orig.Labels[k]

\* a flatten that hid an ignored label and kept a configured internal annotation
C1_Witness ==
    /\ flat.done
    /\ \E k \in DOMAIN orig.Labels :
          ~IsInternalKey(k) /\ IgnoredLabel(k) /\ k \notin DOMAIN flat.m.labels
    /\ \E k \in DOMAIN flat.m.annotations :
          IsInternalKey(k) /\ k \in DOMAIN configAnnotations

IsKubernetesIoDomain(h) ==
    \/ h = <<"kubernetes.io">>
    \/ HasSuffix(h, <<".", "kubernetes.io">>)

AllowedHostname(h) ==
    \/ h = <<"app", ".", "kubernetes.io">>
    \/ h = <<"service.beta", ".", "kubernetes.io">>

\* C3: a key whose hostname is not kubernetes.io or a subdomain of it, and which
\* does not contain the DaemonSet generation annotation, is not internal, and
\* FlattenMetadata keeps it unless an ignore expression matches it.
C3_OnlyKubernetesIoInternal ==
    ( /\ Len(key) > 0
      /\ ~IsKubernetesIoDomain(Hostname(UrlParse(key)))
      /\ ~Contains(key, <<DaemonSetGeneration>>) )
    => /\ ~IsInternalKey(key)
       /\ (flat.done /\ key \in DOMAIN orig.Annotations)
             => (key \in DOMAIN flat.m.annotations \/ IgnoredAnnotation(key))

\* C4: a key whose hostname is app.kubernetes.io or service.beta.kubernetes.io
\* is never internal, and FlattenMetadata keeps it unless an ignore expression
\* matches it.
C4_AllowRulesTakePrecedence ==
    AllowedHostname(Hostname(UrlParse(key)))
    => /\ ~IsInternalKey(key)
       /\ (flat.done /\ key \in DOMAIN orig.Annotations)
             => (key \in DOMAIN flat.m.annotations \/ IgnoredAnnotation(key))

\* an allowed key that contains the DaemonSet generation annotation was kept
C4_Witness ==
    /\ flat.done
    /\ key = <<"app", ".", "kubernetes.io", "/", DaemonSetGeneration>>
    /\ key \in DOMAIN orig.Annotations
    /\ key \in DOMAIN flat.m.annotations

----------------------------------------------------------------------------
(* Claims about the default service account create *)

Last(q) == q[Len(q)]

Issued(c) == \E i \in 1..Len(calls) : calls[i] = c

IssuedBefore(c, i) == \E j \in 1..(i - 1) : calls[j] = c

\* C5: no Patch is issued before a Get and the default secret lookup have
\* succeeded; after a NotFound the create is back in the retry loop (or timed
\* out), and after another Get error it has returned that error.
C5_PatchOnlyAfterGet ==
    /\ \A i \in 1..Len(calls) :
          calls[i].op = "Patch" =>
             /\ IssuedBefore(Call("Get", "OK"), i)
             /\ IssuedBefore(Call("DefaultSecret", "OK"), i)
    /\ (calls # <<>> /\ Last(calls) = Call("Get", "NotFound")) =>
          \/ pc = "retry"
          \/ pc = "done" /\ diags = <<"timeout">>
    /\ (calls # <<>> /\ Last(calls) = Call("Get", "Error")) =>
          pc = "done" /\ diags = <<"get error">>

\* a Patch was issued after a Get that had to be retried
C5_Witness ==
    /\ Len(calls) >= 4
    /\ calls[1] = Call("Get", "NotFound")
    /\ calls[2] = Call("Get", "OK")
    /\ calls[4].op = "Patch"

\* C6: the ID is set only once a Patch was accepted, and a create that ended
\* without an accepted Patch returned an error and left the ID unset.
C6_IdOnlyAfterPatchAccepted ==
    /\ id # <<>> => Issued(Call("Patch", "OK"))
    /\ (pc = "done" /\ ~Issued(Call("Patch", "OK"))) => (diags # <<>> /\ id = <<>>)

\* the Patch was refused: an error is returned and the ID is unset
C6_Witness ==
    /\ pc = "done"
    /\ Issued(Call("Patch", "Error"))
    /\ diags = <<"Failed to update default service account">>
    /\ id = <<>>

RetryLoopShape ==
    /\ \A i \in 1..Len(calls) :
          calls[i] \in { Call("Get", "OK"), Call("Get", "Error") } =>
             \A j \in (i + 1)..Len(calls) : calls[j].op # "Get"
    /\ diags = <<"timeout">> =>
          /\ pc = "done"
          /\ \A i \in 1..Len(calls) : calls[i].op # "Patch"
    /\ (calls # <<>> /\ Last(calls) = Call("Get", "OK")) => pc = "secret"

\* C7: the create returns; there is no Get after a successful Get or after an
\* error other than NotFound; a create that timed out has returned and sent no
\* Patch; a successful Get leads on to the default secret lookup.
C7_RetryLoopTerminates ==
    /\ <>(pc = "done")
    /\ []RetryLoopShape

\* Get answered NotFound until the timeout expired
C7_Witness ==
    /\ pc = "done"
    /\ diags = <<"timeout">>
    /\ attempts = MaxAttempts
    /\ Len(calls) = MaxAttempts

----------------------------------------------------------------------------
(* Claims about the expand/flatten converters *)

InputLimits == IF NumLimits(lrS) = 0 THEN <<>> ELSE lrS[1].limit

\* limit n of the input is a Pod limit with a non-empty default_request
PodWithDefaultRequest(n) ==
    LET l == InputLimits[n] IN
    /\ "type" \in DOMAIN l /\ l.type = "Pod"
    /\ "default_request" \in DOMAIN l /\ Size(l.default_request) > 0

PodLimitsWithDefaultRequest == { n \in 1..Len(InputLimits) : PodWithDefaultRequest(n) }

\* every value of the resource map parses
MapExpands(rm) == \A k \in DOMAIN rm : ExpandValue(rm[k]).err = NoError

\* limit n of the input expands without error, its default_request aside
OtherFieldsExpand(n) ==
    \A f \in Range(ResourceFields) :
        f \in DOMAIN InputLimits[n] => MapExpands(InputLimits[n][f])

LimitExpands(n) ==
    /\ OtherFieldsExpand(n)
    /\ ("default_request" \in DOMAIN InputLimits[n] /\ ~PodWithDefaultRequest(n))
          => MapExpands(InputLimits[n].default_request)

\* no Pod item of a result without error has a DefaultRequest, and an update
\* drops the default_request of a Pod limit but expands its other fields
PodDefaultRequestNotSent ==
    lrRes.err = NoError =>
        /\ \A n \in 1..Len(lrRes.Limits) :
              lrRes.Limits[n].Type = "Pod" => Size(lrRes.Limits[n].DefaultRequest) = 0
        /\ \A n \in PodLimitsWithDefaultRequest :
              /\ ~lrIsNew
              /\ Len(lrRes.Limits) = Len(InputLimits)
              /\ \A f \in Range(ResourceFields) :
                    DOMAIN lrRes.Limits[n][f] =
                       (IF f \in DOMAIN InputLimits[n] THEN DOMAIN InputLimits[n][f] ELSE {})

\* C8 as stated: ... and on a new resource the error names the index of that
\* Pod limit, for every Pod limit that carries a non-empty default_request.
C8_PodDefaultRequestErrorNamesLimit ==
    lrRes.done =>
        /\ PodDefaultRequestNotSent
        /\ lrIsNew =>
              \A n \in PodLimitsWithDefaultRequest :
                  lrRes.err = [ kind |-> "pod", index |-> n - 1 ]

\* C8 amended: on a new resource with such a Pod limit an error is returned; it
\* names the index of the first such limit unless a limit before that one fails
\* to expand, and then it is the error of that earlier limit.
C8_PodDefaultRequestErrorNamesFirst ==
    lrRes.done =>
        /\ PodDefaultRequestNotSent
        /\ (lrIsNew /\ PodLimitsWithDefaultRequest # {}) =>
              LET first == CHOOSE n \in PodLimitsWithDefaultRequest :
                               \A k \in PodLimitsWithDefaultRequest : n <= k
              IN /\ lrRes.err # NoError
                 /\ lrRes.err.kind = "pod" => lrRes.err.index = first - 1
                 /\ (\A k \in 1..(first - 1) : LimitExpands(k))
                       <=> lrRes.err = [ kind |-> "pod", index |-> first - 1 ]

\* a create was refused for its second limit, and an update dropped the
\* default_request of a Pod limit
C8_Witness ==
    /\ lrRes.done
    /\ \/ lrIsNew /\ lrRes.err = [ kind |-> "pod", index |-> 1 ]
       \/ /\ ~lrIsNew /\ lrRes.err = NoError /\ PodLimitsWithDefaultRequest # {}
          /\ \E n \in PodLimitsWithDefaultRequest : Size(lrRes.Limits[n].max) > 0

HasName(e) == "name" \in DOMAIN e /\ e.name # ""

DefaultSecretNotFlattened ==
    \A i \in 1..Len(saOut) : "name" \in DOMAIN saOut[i] => saOut[i].name # saDef

\* C9 as stated: a list of entries with non-empty names comes back unchanged
\* from expand and flatten, and the default secret is not among the result.
C9_SecretsRoundTrip ==
    (saStage = "flattened" /\ \A i \in 1..Len(saIn) : HasName(saIn[i]))
    => /\ saOut = saIn
       /\ DefaultSecretNotFlattened

\* C9 amended: a list of entries with non-empty names, none of them the default
\* secret's, comes back unchanged; the default secret is never among the result.
C9_SecretsRoundTripExceptDefault ==
    saStage = "flattened" =>
       /\ (\A i \in 1..Len(saIn) : HasName(saIn[i]) /\ saIn[i].name # saDef)
             => saOut = saIn
       /\ DefaultSecretNotFlattened

\* two named secrets went through expand, which added the default, and flatten
C9_Witness ==
    /\ saStage = "flattened"
    /\ saDef # ""
    /\ Len(saIn) >= 2
    /\ \A i \in 1..Len(saIn) : HasName(saIn[i]) /\ saIn[i].name # saDef
    /\ Len(saAtt) = Len(saIn) + 1
    /\ saOut = saIn

SameRequirements(a, b) ==
    /\ Len(a) = Len(b)
    /\ \A j \in 1..Len(a) :
          /\ a[j].Key = b[j].Key
          /\ a[j].Operator = b[j].Operator
          /\ Range(a[j].Values) = Range(b[j].Values)

\* C10: flattened and expanded again, the terms are as many as before, and the
\* requirements of each keep position, key, operator and set of values.
C10_NodeSelectorRoundTrip ==
    nsStage = "expanded" =>
       /\ Len(nsOut) = Len(nsIn)
       /\ \A i \in 1..Len(nsIn) :
             /\ SameRequirements(nsOut[i].MatchExpressions, nsIn[i].MatchExpressions)
             /\ SameRequirements(nsOut[i].MatchFields, nsIn[i].MatchFields)

----------------------------------------------------------------------------
(* Claims about resource IDs *)

NumSlashes(s) == Cardinality({ i \in 1..Len(s) : s[i] = "/" })

\* C11: IdParts inverts BuildId: for an ID built from a namespace and a name
\* that hold no "/", IdParts returns that namespace and that name without
\* error; and IdParts returns an error exactly when the ID does not hold
\* exactly one "/", and then both returned strings are empty.
C11_IdPartsInvertsBuildId ==
    /\ idStage = "parsedBuilt" /\ NumSlashes(idNamespace) = 0 /\ NumSlashes(idName) = 0
          => idRes = [ namespace |-> idNamespace, name |-> idName, err |-> FALSE ]
    /\ idStage \in { "parsedBuilt", "parsedRaw" } =>
          /\ idRes.err <=> NumSlashes(idStr) # 1
          /\ idRes.err => idRes.namespace = <<>> /\ idRes.name = <<>>

C11_Witness ==
    /\ idStage = "parsedBuilt"
    /\ Len(idNamespace) > 0 /\ Len(idName) > 0
    /\ NumSlashes(idNamespace) = 0 /\ NumSlashes(idName) = 0
    /\ ~idRes.err
    /\ idRes.namespace = idNamespace /\ idRes.name = idName

----------------------------------------------------------------------------
(* Claims about the patch of the default service account create *)

IsAnnotationOp(o) == o.path[1] = "/metadata/annotations"
IsLabelOp(o)      == o.path[1] = "/metadata/labels"
IsMetadataOp(o)   == IsAnnotationOp(o) \/ IsLabelOp(o)

PatchBuilt == pc \in { "patch", "read", "done" } /\ Issued(Call("DefaultSecret", "OK"))

NumMetadataOps == Cardinality({ i \in 1..Len(ops) : IsMetadataOp(ops[i]) })

\* the paths the attribute operations must have, in order
ExpectedAttributePaths ==
    (IF plan.image_pull_secret.changed THEN << <<"/imagePullSecrets">> >> ELSE <<>>)
    \o (IF plan.secret.changed THEN << <<"/secrets">> >> ELSE <<>>)
    \o << <<"/automountServiceAccountToken">> >>

\* C12: the patch of the default service account create is the metadata
\* operations (annotations before labels), then a replace of /imagePullSecrets
\* iff image_pull_secret changed, then a replace of /secrets iff secret
\* changed, and last exactly one replace of /automountServiceAccountToken,
\* whether or not that attribute is set.
C12_PatchShape ==
    PatchBuilt =>
        LET m    == NumMetadataOps
            rest == SubSeq(ops, m + 1, Len(ops))
        IN  /\ \A i \in 1..m : IsMetadataOp(ops[i])
            /\ \A i, j \in 1..m :
                  IsAnnotationOp(ops[i]) /\ IsLabelOp(ops[j]) => i < j
            /\ [ i \in 1..Len(rest) |-> rest[i].path ] = ExpectedAttributePaths
            /\ \A i \in 1..Len(rest) : rest[i].op = "replace"
            /\ Last(ops).path = <<"/automountServiceAccountToken">>
            /\ Cardinality({ i \in 1..Len(ops) :
                              ops[i].path = <<"/automountServiceAccountToken">> }) = 1

C12_Witness ==
    /\ pc = "patch"
    /\ \E i, j \in 1..Len(ops) : IsAnnotationOp(ops[i]) /\ IsLabelOp(ops[j])
    /\ plan.image_pull_secret.changed
    /\ ~plan.secret.changed
    /\ ~plan.automount_service_account_token
    /\ Last(ops).path = <<"/automountServiceAccountToken">>
    /\ ops[Len(ops) - 1].path = <<"/imagePullSecrets">>

\* every list of at most n configured secret entries
RECURSIVE SecretLists(_)
SecretLists(n) ==
    IF n = 0 THEN { <<>> }
    ELSE SecretLists(n - 1)
         \cup { Append(l, e) : l \in { x \in SecretLists(n - 1) : Len(x) = n - 1 },
                               e \in SecretEntries }

\* C13: a replace of /secrets never drops the default secret: when the default
\* secret name is not empty, ExpandServiceAccountSecrets(in, def) ends with a
\* reference named def for every input list, and so does the value of every
\* /secrets replace in the patch of the default service account create.
C13_DefaultSecretKept ==
    PatchBuilt /\ default_secret_name # "" =>
        /\ \A i \in 1..Len(ops) :
              ops[i].path = <<"/secrets">> =>
                 /\ Len(ops[i].value) > 0
                 /\ Last(ops[i].value) = [ Name |-> default_secret_name ]
        /\ pc = "patch" =>
              \A in \in SecretLists(MaxSecrets) :
                 LET att == ExpandServiceAccountSecrets(in, default_secret_name)
                 IN  Len(att) > 0 /\ Last(att) = [ Name |-> default_secret_name ]

C13_Witness ==
    /\ Issued(Call("Patch", "OK"))
    /\ default_secret_name = "token"
    /\ \E i \in 1..Len(ops) :
          /\ ops[i].path = <<"/secrets">>
          /\ Len(ops[i].value) = 3
          /\ ops[i].value[1] = [ Name |-> "token" ]
          /\ ops[i].value[3] = [ Name |-> "token" ]

----------------------------------------------------------------------------
(* Claims about the data source reads *)

GetFailed ==
    /\ rpc = "done"
    /\ Len(rCalls) > 0
    /\ Last(rCalls) = Call("Get", "Error")

\* SetId comes before the Get in the namespace and pod reads, and only after
\* a successful Get in the service account read
SetIdOrder ==
    /\ rKind \in { "namespace", "pod" } =>
          \A i \in 1..Len(rCalls) :
             rCalls[i].op = "Get" => \E j \in 1..(i - 1) : rCalls[j].op = "SetId"
    /\ rKind = "service_account" =>
          \A j \in 1..Len(rCalls) :
             rCalls[j].op = "SetId" => \E i \in 1..(j - 1) : rCalls[i] = Call("Get", "OK")

FailedGetWritesNothing ==
    GetFailed =>
        /\ rWritten \cap { "metadata", "spec", "status", "default_secret_name" } = {}
        /\ rDiags # <<>>

\* the ID the namespace and pod reads build from the configured metadata
ConfiguredId ==
    IF rKind = "namespace" THEN rMeta.Name
    ELSE BuildId([ Namespace |-> rMeta.Namespace, Name |-> rMeta.Name ])

\* C14 (as stated): the namespace and pod reads set the ID before the Get, so
\* the ID is set also when the Get fails; the service account read sets the
\* ID only after a successful Get, so a failed Get leaves the ID unset; in
\* all three a failed Get writes none of metadata, spec, status and
\* default_secret_name.
C14_IdSetWhenGetFails ==
    /\ SetIdOrder
    /\ FailedGetWritesNothing
    /\ GetFailed /\ rKind \in { "namespace", "pod" } => rId # <<>>
    /\ GetFailed /\ rKind = "service_account" => rId = <<>>

\* C14 (amended): as stated, except that after a failed Get the ID of the
\* namespace and pod reads is the one built from the configured metadata:
\* namespace/name for the pod read, which is never empty, and the name for
\* the namespace read, which is the unset ID when no name is configured.
C14_IdIsConfiguredWhenGetFails ==
    /\ SetIdOrder
    /\ FailedGetWritesNothing
    /\ GetFailed /\ rKind \in { "namespace", "pod" } => rId = ConfiguredId
    /\ GetFailed /\ rKind = "pod" => rId # <<>>
    /\ GetFailed /\ rKind = "namespace" => (rId # <<>> <=> rMeta.Name # <<>>)
    /\ GetFailed /\ rKind = "service_account" => rId = <<>>

C14_Witness ==
    /\ GetFailed
    /\ rKind = "namespace"
    /\ rMeta.Name = <<"a">>
    /\ rId = <<"a">>
    /\ rCalls = << Call("SetId", ""), Call("Get", "Error") >>
    /\ rWritten = {}

RIssued(op) == \E i \in 1..Len(rCalls) : rCalls[i].op = op

\* C15: in the service account data source read, after a successful Get,
\* whatever diagnostics the default secret lookup reports, the read either
\* sets default_secret_name, sets the ID, runs the resource read and returns
\* the lookup's diagnostics followed by the resource read's diagnostics; or
\* it fails to set default_secret_name and returns that error at once, with
\* the ID unset and the resource read not run.
C15_LookupDiagnosticsKept ==
    /\ rKind = "service_account" /\ rpc = "done" /\ RIssued("Get")
          /\ Last(rCalls) # Call("Get", "Error") =>
          \/ /\ "default_secret_name" \in rWritten
             /\ Len(rCalls) = 4
             /\ rCalls[1] = Call("Get", "OK")
             /\ rCalls[2].op = "DefaultSecret"
             /\ rCalls[3].op = "SetId"
             /\ rCalls[4].op = "Read"
             /\ rDiags = diagMsg \o rReadDiags
             /\ SubSeq(rDiags, 1, Len(diagMsg)) = diagMsg
             /\ SubSeq(rDiags, Len(diagMsg) + 1, Len(rDiags)) = rReadDiags
          \/ /\ "default_secret_name" \notin rWritten
             /\ rDiags = <<"Unable to set default_secret_name">>
             /\ rId = <<>>
             /\ ~RIssued("SetId") /\ ~RIssued("Read")
    \* the lookup's diagnostics never end the read by themselves
    /\ rKind = "service_account" /\ rpc = "done" /\ diagMsg # <<>> =>
          rDiags # diagMsg \/ RIssued("Read")

C15_Witness ==
    /\ rKind = "service_account" /\ rpc = "done"
    /\ diagMsg = <<"lookup warning", "lookup error">>
    /\ rReadDiags = <<"read error">>
    /\ rDiags = <<"lookup warning", "lookup error", "read error">>
    /\ "default_secret_name" \in rWritten
    /\ rId # <<>>

----------------------------------------------------------------------------
(* Claims about the result of ExpandLimitRangeSpec *)

\* item n of the result was expanded from limit n of the input: it has its
\* type and, in every field that was expanded, its resources
ItemOfLimit(n) ==
    LET l == InputLimits[n]
        item == lrRes.Limits[n]
    IN  /\ item.Type = (IF "type" \in DOMAIN l THEN l.type ELSE "")
        /\ \A f \in Range(ResourceFields) :
              DOMAIN item[f] = (IF f \in DOMAIN l THEN DOMAIN l[f] ELSE {})
        /\ DOMAIN item.DefaultRequest \subseteq
              (IF "default_request" \in DOMAIN l THEN DOMAIN l.default_request ELSE {})

\* C16: ExpandLimitRangeSpec returns no partially expanded limits: with an
\* error (a quantity that does not parse, a value that is neither an int nor a
\* string, a forbidden Pod default_request on a new resource) the returned
\* Limits list is empty, whichever limit and field failed; without an error
\* Limits has exactly one item per input limit, in the order of the input.
C16_NoPartialLimits ==
    lrRes.done =>
        /\ lrRes.err # NoError =>
              /\ lrRes.Limits = <<>>
              /\ lrRes.err.kind \in { "parse", "type", "pod" }
        /\ lrRes.err = NoError =>
              /\ Len(lrRes.Limits) = Len(InputLimits)
              /\ \A n \in 1..Len(InputLimits) : ItemOfLimit(n)

\* the second limit failed after the first one had been expanded
C16_Witness ==
    /\ lrRes.done
    /\ Len(InputLimits) = 2
    /\ LimitExpands(1) /\ ~PodWithDefaultRequest(1)
    /\ ~LimitExpands(2)
    /\ lrRes.err # NoError
    /\ lrRes.Limits = <<>>

----------------------------------------------------------------------------
(* Claims about the two copies of the node selector converters *)

\* the requirement lists, typed and generic, that the terms of the state hold
TypedRequirementLists ==
    { nsIn[i].MatchExpressions : i \in 1..Len(nsIn) }
    \cup { nsIn[i].MatchFields : i \in 1..Len(nsIn) }

GenericRequirementLists ==
    { AssertedList(nsAtt[i], f) :
        i \in { j \in 1..Len(nsAtt) : ~IsNil(nsAtt[j]) },
        f \in { "match_expressions", "match_fields" } }

\* C17: each node selector converter of core/v1 returns what the exported
\* function of the same name in the structures package returns, on the terms
\* of an object and on the terms of a configuration; for the empty list and
\* for a list whose first element is nil both copies of expandNodeSelectorTerms
\* return the empty list, whatever the other elements are.
C17_CopiesAgree ==
    /\ v1Att.done => v1Att.value = nsAtt
    /\ v1Out.done => v1Out.value = nsOut
    /\ v1Out.done /\ (Len(nsAtt) = 0 \/ IsNil(nsAtt[1])) =>
          v1Out.value = <<>> /\ nsOut = <<>>
    /\ \A i \in 1..Len(nsIn) :
          flattenNodeSelectorTerm(nsIn[i]) = FlattenNodeSelectorTerm(nsIn[i])
    /\ \A in \in TypedRequirementLists :
          flattenNodeSelectorRequirementList(in) = FlattenNodeSelectorRequirementList(in)
    /\ nsStage \in { "flattened", "configured", "expanded", "expandedConfigured" } =>
          /\ \A i \in 1..Len(nsAtt) :
                expandNodeSelectorTerm(<<nsAtt[i]>>) = ExpandNodeSelectorTerm(<<nsAtt[i]>>)
          /\ expandNodeSelectorTerm(nsAtt) = ExpandNodeSelectorTerm(nsAtt)
          /\ \A in \in GenericRequirementLists :
                expandNodeSelectorRequirementList(in) = ExpandNodeSelectorRequirementList(in)

\* a configuration of two terms, the first one nil and the second one with a
\* requirement: both copies expanded it to the empty list
C17_Witness ==
    /\ nsStage = "expandedConfigured"
    /\ v1Out.done
    /\ Len(nsAtt) = 2
    /\ IsNil(nsAtt[1])
    /\ ~IsNil(nsAtt[2]) /\ Len(nsAtt[2].match_expressions.elems) > 0
    /\ v1Out.value = <<>> /\ nsOut = <<>>

\* a configuration whose requirements both copies expanded
C17_WitnessExpanded ==
    /\ nsStage = "expandedConfigured"
    /\ v1Out.done
    /\ Len(nsOut) = 1
    /\ Len(nsOut[1].MatchExpressions) = 1 /\ Len(nsOut[1].MatchFields) = 1
    /\ v1Out.value = nsOut

====
